---- MODULE Spec2Model ----
(***************************************************************************)
(* State-machine model of PriorityQueue (src/priorityqueue.py): the task   *)
(* store, the dependency graph with its cycle check and blocked/pending    *)
(* recomputation pass, the score function, the selector and the agent      *)
(* registry.                                                               *)
(*                                                                         *)
(* Modelling conventions                                                   *)
(*  - Task ids.  add() draws a fresh uuid; the model issues 1, 2, ... in   *)
(*    order (nextId).  Foreign is an id string that this store's uuid      *)
(*    generator never produced (a made-up id, or the id of a task of       *)
(*    another store's export); callers can name issued ids and Foreign.    *)
(*  - Time is counted in whole hours: now is datetime.now(), and the       *)
(*    timestamps of a task are absolute hours.                             *)
(*  - Scores are the code's products multiplied by ScoreScale and computed *)
(*    exactly, so that every factor is an integer.                         *)
(*  - history is the length of the append-only _history list.              *)
(*  - op records the last call: its name, arguments and return values.     *)
(***************************************************************************)
EXTENDS Integers, Sequences, FiniteSets, TLC

\* ------------------------------------------------------------------ bounds
MaxTasks == 2       \* number of uuids add() can issue
MaxHist == 2        \* cap on the number of history entries
MaxNow == 90        \* last hour the clock reaches

\* --------------------------------------------------------------- constants
Foreign == MaxTasks + 1   \* an id never issued by this store's uuid generator
None == -1          \* Python None (task id, deadline, agent.current_task)
Unparsable == -2    \* a timestamp string datetime.fromisoformat rejects

PENDING == "PENDING"
IN_PROGRESS == "IN_PROGRESS"
BLOCKED == "BLOCKED"
COMPLETED == "COMPLETED"
CANCELLED == "CANCELLED"
FAILED == "FAILED"
TaskStatus == {PENDING, IN_PROGRESS, BLOCKED, COMPLETED, CANCELLED, FAILED}

TaskPriority == 1..5

ANY == "ANY"
NoAgent == ""
NoneStr == "None"   \* Python None where the values are strings
AGENTS == {"FORGE", "ATLAS", "CLIO", "NEXUS", "BOLT", "PORTER", ANY}
Roster == AGENTS \ {ANY}

\* _get_agent_capabilities: the tags _initialize_agents gives each agent of the
\* roster; no operation changes them afterwards
get_agent_capabilities(agent_name) ==
    CASE agent_name = "FORGE" -> {"COORDINATION", "DOCUMENTATION", "RESEARCH", "REVIEW"}
      [] agent_name = "ATLAS" -> {"DEVELOPMENT", "TESTING", "BUGFIX", "FEATURE"}
      [] agent_name = "CLIO" -> {"DEVELOPMENT", "MAINTENANCE", "DOCUMENTATION"}
      [] agent_name = "NEXUS" -> {"RESEARCH", "TESTING", "DOCUMENTATION"}
      [] agent_name = "BOLT" -> {"DEVELOPMENT", "BUGFIX", "FEATURE"}
      [] agent_name = "PORTER" -> {"DEVELOPMENT", "MOBILE", "TESTING"}
      [] OTHER -> {"OTHER"}

ScoreScale == 100000

VARIABLES tasks, order, agents, history, nextId, now, op, lock, threads

vars == <<tasks, order, agents, history, nextId, now, op, lock, threads>>

\* ------------------------------------------------------------ input ranges
IDS == 1..MaxTasks
Known == {i \in IDS : i < nextId} \cup {Foreign}
AssignedArgs == {ANY, "ATLAS"}
StartArgs == {NoAgent, "ATLAS"}
\* dependency lists passed to add(): empty or one id (add_dependency extends them)
DepArgs == {<<>>} \cup {<<d>> : d \in Known}

SeqsUpTo(S, n) == UNION {[1..k -> S] : k \in 0..n}

Range(s) == {s[i] : i \in 1..Len(s)}

\* ------------------------------------------------------------- task store
Stored == DOMAIN tasks

Task(id, priority, category, assigned_agent, created_at, deadline, dependencies) ==
    [id |-> id, status |-> PENDING, priority |-> priority, category |-> category,
     assigned_agent |-> assigned_agent, created_at |-> created_at,
     deadline |-> deadline, dependencies |-> dependencies]

AgentStatus == [available |-> TRUE, current_task |-> None, completed_today |-> 0]

\* mutant: the dependency's status is not compared with COMPLETED
AllDepsPresent(ts, deps) == \A i \in 1..Len(deps) : deps[i] \in DOMAIN ts

\* all(dep present and COMPLETED for dep in task.dependencies)
AllDepsComplete(ts, deps) ==
    \A i \in 1..Len(deps) :
        deps[i] \in DOMAIN ts /\ ts[deps[i]].status = COMPLETED

\* mutant: the branch that returns a BLOCKED task to PENDING is missing
UpdatedStatusNoUnblock(ts, t) ==
    IF t.status \in {COMPLETED, CANCELLED, FAILED, IN_PROGRESS} THEN t.status
    ELSE IF Len(t.dependencies) > 0 /\ ~AllDepsComplete(ts, t.dependencies) THEN BLOCKED
    ELSE t.status

\* mutant: a BLOCKED task is reset to PENDING without looking at its dependencies
UpdatedStatusResetBlocked(ts, t) ==
    IF t.status \in {COMPLETED, CANCELLED, FAILED, IN_PROGRESS} THEN t.status
    ELSE IF t.status = BLOCKED THEN PENDING ELSE t.status

\* mutant: a task with incomplete dependencies is not set to BLOCKED
UpdatedStatusNoBlock(ts, t) ==
    IF t.status \in {COMPLETED, CANCELLED, FAILED, IN_PROGRESS} THEN t.status
    ELSE IF Len(t.dependencies) > 0 /\ ~AllDepsComplete(ts, t.dependencies) THEN t.status
    ELSE IF t.status = BLOCKED THEN PENDING ELSE t.status

\* mutant: FAILED is missing from the statuses the pass skips
UpdatedStatusFailedNotSkipped(ts, t) ==
    IF t.status \in {COMPLETED, CANCELLED, IN_PROGRESS} THEN t.status
    ELSE IF Len(t.dependencies) > 0
         THEN IF ~AllDepsComplete(ts, t.dependencies) THEN BLOCKED
              ELSE IF t.status = BLOCKED THEN PENDING ELSE t.status
         ELSE IF t.status = BLOCKED THEN PENDING ELSE t.status

\* mutant: COMPLETED is missing from the statuses the pass skips
UpdatedStatusCompletedNotSkipped(ts, t) ==
    IF t.status \in {CANCELLED, FAILED, IN_PROGRESS} THEN t.status
    ELSE IF Len(t.dependencies) > 0
         THEN IF ~AllDepsComplete(ts, t.dependencies) THEN BLOCKED
              ELSE IF t.status = BLOCKED THEN PENDING ELSE t.status
         ELSE IF t.status = BLOCKED THEN PENDING ELSE t.status

\* mutant: the pass counts a dependency that is not stored as complete
UpdatedStatusIgnoresAbsent(ts, t) ==
    LET all_deps_complete ==
            \A i \in 1..Len(t.dependencies) :
                t.dependencies[i] \in DOMAIN ts => ts[t.dependencies[i]].status = COMPLETED
    IN  IF t.status \in {COMPLETED, CANCELLED, FAILED, IN_PROGRESS} THEN t.status
        ELSE IF Len(t.dependencies) > 0
             THEN IF ~all_deps_complete THEN BLOCKED
                  ELSE IF t.status = BLOCKED THEN PENDING ELSE t.status
             ELSE IF t.status = BLOCKED THEN PENDING ELSE t.status

\* the new status _update_blocked_status gives one task
UpdatedStatus(ts, t) ==
    IF t.status \in {COMPLETED, CANCELLED, FAILED, IN_PROGRESS} THEN t.status
    ELSE IF Len(t.dependencies) > 0
         THEN IF ~AllDepsComplete(ts, t.dependencies) THEN BLOCKED
              ELSE IF t.status = BLOCKED THEN PENDING ELSE t.status
         ELSE IF t.status = BLOCKED THEN PENDING ELSE t.status

\* mutant: the pass stops after the first task of the dict
RECURSIVE UpdateFrom(_, _, _)
UpdateFirstOnly(ts, ord, i) ==
    IF i > Len(ord) \/ i > 1 THEN ts
    ELSE UpdateFrom([ts EXCEPT ![ord[i]].status = UpdatedStatus(ts, ts[ord[i]])],
                    ord, i + 1)

\* _update_blocked_status: one pass over the dict in insertion order; a task
\* visited later sees the statuses already rewritten for earlier ones.
UpdateFrom(ts, ord, i) ==
    IF i > Len(ord) THEN ts
    ELSE UpdateFrom([ts EXCEPT ![ord[i]].status = UpdatedStatus(ts, ts[ord[i]])],
                    ord, i + 1)

UpdateBlockedStatus(ts, ord) == UpdateFrom(ts, ord, 1)

\* _would_create_cycle: depth-first search from new_dep with a visited set
\* shared by the whole search; the result is <<found, visited>>.
RECURSIVE Dfs(_, _, _, _)
RECURSIVE DfsDeps(_, _, _, _, _)
\* mutant: an id that is not stored ends the search before it is compared
\* with task_id
DfsStoredFirst(ts, task_id, current, visited) ==
    IF current \notin DOMAIN ts THEN <<FALSE, visited>>
    ELSE IF current = task_id THEN <<TRUE, visited>>
    ELSE IF current \in visited THEN <<FALSE, visited>>
    ELSE DfsDeps(ts, task_id, ts[current].dependencies, 1, visited \cup {current})

Dfs(ts, task_id, current, visited) ==
    IF current = task_id THEN <<TRUE, visited>>
    ELSE IF current \in visited THEN <<FALSE, visited>>
    ELSE IF current \notin DOMAIN ts THEN <<FALSE, visited \cup {current}>>
    ELSE DfsDeps(ts, task_id, ts[current].dependencies, 1, visited \cup {current})

DfsDeps(ts, task_id, deps, i, visited) ==
    IF i > Len(deps) THEN <<FALSE, visited>>
    ELSE LET r == Dfs(ts, task_id, deps[i], visited)
         IN  IF r[1] THEN r ELSE DfsDeps(ts, task_id, deps, i + 1, r[2])

\* mutant: the search runs in the wrong direction, from task_id towards new_dep
WouldCreateCycleSwapped(ts, task_id, new_dep) == Dfs(ts, new_dep, task_id, {})[1]

WouldCreateCycle(ts, task_id, new_dep) == Dfs(ts, task_id, new_dep, {})[1]

\* ---------------------------------------------------------- score function
\* mutant: an overdue deadline gets the factor of a deadline within the hour
DeadlineFactorMild(deadline, t) ==
    IF deadline = None \/ deadline = Unparsable THEN 10
    ELSE LET hours_until_deadline == deadline - t
         IN  IF hours_until_deadline < 1 THEN 3
             ELSE IF hours_until_deadline < 4 THEN 5
             ELSE IF hours_until_deadline < 24 THEN 7
             ELSE IF hours_until_deadline < 72 THEN 9
             ELSE 10

\* deadline bracket factor, times 10
DeadlineFactor(deadline, t) ==
    IF deadline = None \/ deadline = Unparsable THEN 10
    ELSE LET hours_until_deadline == deadline - t
         IN  IF hours_until_deadline < 0 THEN 1
             ELSE IF hours_until_deadline < 1 THEN 3
             ELSE IF hours_until_deadline < 4 THEN 5
             ELSE IF hours_until_deadline < 24 THEN 7
             ELSE IF hours_until_deadline < 72 THEN 9
             ELSE 10

\* mutant: the two age checks exclude each other (elif), so an old task gets
\* 0.90 alone
AgeFactorExclusive(created_at, t) ==
    IF created_at = Unparsable THEN 10000
    ELSE LET age_hours == t - created_at
         IN  IF age_hours > 72 THEN 9000 ELSE IF age_hours > 24 THEN 9500 ELSE 10000

\* age factor, times 10000: two independent checks, 0.95 and 0.90
AgeFactor(created_at, t) ==
    IF created_at = Unparsable THEN 10000
    ELSE LET age_hours == t - created_at
         IN  (IF age_hours > 24 THEN 95 ELSE 100) * (IF age_hours > 72 THEN 90 ELSE 100)

\* blocked penalty
BlockedFactor(status) == IF status = BLOCKED THEN 10 ELSE 1

\* mutant: an overdue task scores 0.1 whatever its priority
CalculateScoreOverdueFlat(t, time) ==
    (IF DeadlineFactor(t.deadline, time) = 1 THEN 1 ELSE t.priority * DeadlineFactor(t.deadline, time))
        * AgeFactor(t.created_at, time) * BlockedFactor(t.status)

\* Task.calculate_score, times ScoreScale
CalculateScore(t, time) ==
    t.priority * DeadlineFactor(t.deadline, time) * AgeFactor(t.created_at, time)
        * BlockedFactor(t.status)

\* The score is a float and each factor is applied by one float multiplication
\* (score *= 0.1 ...), so two products that are equal as exact numbers can differ
\* in the last bit: 3 * 0.1 is 0.30000000000000004 and 1 * 0.3 is 0.3. Rounded
\* lists, as <<priority, DeadlineFactor, AgeFactor, BlockedFactor>>, the products
\* that come out above the smallest float of their exact value; RoundedTwice is
\* the one product that comes out above another member of Rounded.
Rounded ==
    {<<3, 1, 10000, 1>>, <<3, 1, 9500, 1>>, <<3, 1, 8550, 1>>,
     <<3, 1, 10000, 10>>, <<3, 1, 9500, 10>>, <<3, 1, 8550, 10>>,
     <<1, 9, 10000, 1>>, <<1, 9, 9500, 1>>, <<1, 9, 8550, 1>>,
     <<1, 9, 9500, 10>>, <<1, 9, 8550, 10>>,
     <<1, 10, 8550, 1>>, <<1, 10, 8550, 10>>,
     <<2, 5, 8550, 1>>, <<2, 5, 8550, 10>>,
     <<2, 1, 8550, 10>>, <<4, 1, 8550, 10>>,
     <<1, 5, 8550, 10>>, <<5, 1, 8550, 10>>,
     <<5, 10, 8550, 1>>, <<5, 10, 8550, 10>>}

RoundedTwice == {<<1, 1, 8550, 10>>}

\* position of the float among the floats of the same exact value
Rounding(t, time) ==
    LET product == <<t.priority, DeadlineFactor(t.deadline, time),
                     AgeFactor(t.created_at, time), BlockedFactor(t.status)>>
    IN  IF product \in RoundedTwice THEN 2 ELSE IF product \in Rounded THEN 1 ELSE 0

RoundingSteps == 4

\* the float returned by calculate_score, as the sort compares it: floats of
\* different exact values compare as the exact values do
ScoreKey(t, time) == CalculateScore(t, time) * RoundingSteps + Rounding(t, time)

\* a's float is less than or equal to b's: ScoreKey(a) <= ScoreKey(b), the
\* exact values compared first
ScoreAtMost(a, b, time) ==
    \/ CalculateScore(a, time) < CalculateScore(b, time)
    \/ /\ CalculateScore(a, time) = CalculateScore(b, time)
       /\ Rounding(a, time) <= Rounding(b, time)

\* ---------------------------------------------------------------- selector
\* mutant: a task goes before the earlier tasks of equal score
RECURSIVE SortFromTiesReversed(_, _, _, _)
SortFromTiesReversed(ts, time, ids, i) ==
    IF i = 0 THEN <<>>
    ELSE LET rest == SortFromTiesReversed(ts, time, ids, i - 1)
             n == Cardinality({k \in 1..Len(rest) :
                     ~ScoreAtMost(ts[ids[i]], ts[rest[k]], time)})
         IN  SubSeq(rest, 1, n) \o <<ids[i]>> \o SubSeq(rest, n + 1, Len(rest))

\* list.sort(key=calculate_score): stable, ascending
RECURSIVE SortFrom(_, _, _, _)
SortFrom(ts, time, ids, i) ==
    IF i = 0 THEN <<>>
    ELSE LET rest == SortFrom(ts, time, ids, i - 1)
             \* ids[i] goes after every earlier element of equal score
             n == Cardinality({k \in 1..Len(rest) :
                     ScoreAtMost(ts[rest[k]], ts[ids[i]], time)})
         IN  SubSeq(rest, 1, n) \o <<ids[i]>> \o SubSeq(rest, n + 1, Len(rest))

\* mutant: the candidates are left in insertion order
SortSkipped(ts, time, ids) == ids

SortByScore(ts, time, ids) == SortFrom(ts, time, ids, Len(ids))

\* [x for x in ids if P(x)] keeps the order of ids
RECURSIVE FilterSeq(_, _)
FilterSeq(ids, keep) ==
    IF ids = <<>> THEN <<>>
    ELSE (IF Head(ids) \in keep THEN <<Head(ids)>> ELSE <<>>) \o FilterSeq(Tail(ids), keep)

\* mutant: the agent filter is missing
NextCandidateUnfiltered(ts, ord, agent, time) ==
    LET pending == FilterSeq(ord, {i \in DOMAIN ts : ts[i].status = PENDING})
    IN  IF pending = <<>> THEN None ELSE SortByScore(ts, time, pending)[1]

\* the body of get_next after the recompute pass
NextCandidate(ts, ord, agent, time) ==
    LET pending == FilterSeq(ord, {i \in DOMAIN ts : ts[i].status = PENDING})
        filtered == IF agent # NoAgent
                    THEN FilterSeq(pending, {i \in DOMAIN ts :
                             ts[i].assigned_agent = ANY \/ ts[i].assigned_agent = agent})
                    ELSE pending
    IN  IF pending = <<>> THEN None
        ELSE IF filtered = <<>> THEN None
        ELSE SortByScore(ts, time, filtered)[1]

\* mutant: the agent filter keeps only the tasks assigned to the agent itself
QueueFilterNoWildcard(ts, ord, status, agent, category, priority) ==
    LET by_status == IF status # NoneStr
                     THEN FilterSeq(ord, {i \in DOMAIN ts : ts[i].status = status})
                     ELSE ord
        by_agent == IF agent # NoAgent
                    THEN FilterSeq(by_status, {i \in DOMAIN ts : ts[i].assigned_agent = agent})
                    ELSE by_status
        by_category == IF category # NoneStr
                       THEN FilterSeq(by_agent, {i \in DOMAIN ts : ts[i].category = category})
                       ELSE by_agent
    IN  IF priority # None
        THEN FilterSeq(by_category, {i \in DOMAIN ts : ts[i].priority = priority})
        ELSE by_category

\* the filters of get_queue, applied one after the other to the dict's values
QueueFilter(ts, ord, status, agent, category, priority) ==
    LET by_status == IF status # NoneStr
                     THEN FilterSeq(ord, {i \in DOMAIN ts : ts[i].status = status})
                     ELSE ord
        by_agent == IF agent # NoAgent
                    THEN FilterSeq(by_status, {i \in DOMAIN ts :
                             ts[i].assigned_agent = agent \/ ts[i].assigned_agent = ANY})
                    ELSE by_status
        by_category == IF category # NoneStr
                       THEN FilterSeq(by_agent, {i \in DOMAIN ts : ts[i].category = category})
                       ELSE by_agent
    IN  IF priority # None
        THEN FilterSeq(by_category, {i \in DOMAIN ts : ts[i].priority = priority})
        ELSE by_category

\* the slice s[:limit]
Slice(s, limit) ==
    IF limit >= 0
    THEN SubSeq(s, 1, IF limit < Len(s) THEN limit ELSE Len(s))
    ELSE SubSeq(s, 1, IF Len(s) + limit > 0 THEN Len(s) + limit ELSE 0)

\* the body of get_queue after the recompute pass
QueueCandidates(ts, ord, status, agent, category, priority, limit, time) ==
    Slice(SortByScore(ts, time, QueueFilter(ts, ord, status, agent, category, priority)),
          limit)

\* ------------------------------------------------------------------- state
\* the record of a call: its name, its arguments (task id, dependency id,
\* agent), its boolean return value (FALSE also when the call raised instead of
\* returning), its other return value, and the tasks its recompute pass moved
\* from BLOCKED to PENDING
Call(name, id, dep, agent, ret, val, unblocked) ==
    [name |-> name, id |-> id, dep |-> dep, agent |-> agent, ret |-> ret, val |-> val,
     unblocked |-> unblocked]

\* a call without dependency or agent argument that runs no recompute pass
Plain(name, id, ret) == Call(name, id, None, NoAgent, ret, None, {})

\* the tasks a recompute pass moved from BLOCKED to PENDING
Unblocked(before, after) ==
    {i \in DOMAIN before \cap DOMAIN after :
        before[i].status = BLOCKED /\ after[i].status = PENDING}

\* threads calling into one PriorityQueue: the holder of self._lock and, per
\* thread, the call it is inside with its position (pc), the store it found
\* when it took the lock (before), and for a read's recompute pass the dict
\* size at the start of the iteration, its index, the status it is about to
\* write and the tasks it has moved to PENDING
Threads == {"worker_1", "worker_2"}
Unlocked == ""
Idle ==
    [name |-> "", task_id |-> None, agent |-> NoAgent, pc |-> "idle", before |-> <<>>,
     size |-> 0, i |-> 0, write |-> "", moved |-> {}]

\* PriorityQueue.__init__ on an empty config_dir: no tasks, one record per
\* roster agent, empty history
Init ==
    /\ tasks = <<>>
    /\ order = <<>>
    /\ agents = [a \in Roster |-> AgentStatus]
    /\ history = 0
    /\ nextId = 1
    /\ now = 0
    /\ op = Plain("init", None, TRUE)
    /\ lock = Unlocked
    /\ threads = [th \in Threads |-> Idle]

\* self._tasks[task_id] = task, for a key the dict may or may not hold
Put(ts, id, t) == [x \in DOMAIN ts \cup {id} |-> IF x = id THEN t ELSE ts[x]]

PutOrder(ord, ts, id) == IF id \in DOMAIN ts THEN ord ELSE Append(ord, id)

\* mutant: the popped id is also taken out of the other tasks' dependency lists
RECURSIVE ListRemove(_, _)
PopAndUnlist(ts, id) ==
    [x \in DOMAIN ts \ {id} |->
        [ts[x] EXCEPT !.dependencies = ListRemove(@, id)]]

\* self._tasks.pop(task_id)
Pop(ts, id) == [x \in DOMAIN ts \ {id} |-> ts[x]]

\* list.remove(x): drops the first occurrence
ListRemove(s, x) ==
    IF s = <<>> THEN <<>>
    ELSE IF Head(s) = x THEN Tail(s)
    ELSE <<Head(s)>> \o ListRemove(Tail(s), x)

\* mutant: any dependency blocks the new task, COMPLETED or not
InitialStatusAnyDependency(ts, dependencies) ==
    IF Len(dependencies) > 0 THEN BLOCKED ELSE PENDING

\* the status add() gives the new task
InitialStatus(ts, dependencies) ==
    IF Len(dependencies) > 0 /\ ~AllDepsComplete(ts, dependencies) THEN BLOCKED ELSE PENDING

\* ----------------------------------------------------------------- actions
add(priority, category, assigned_agent, deadline, dependencies) ==
    /\ nextId <= MaxTasks
    /\ history < MaxHist
    /\ LET task_id == nextId
           task == [Task(task_id, priority, category, assigned_agent, now, deadline,
                         dependencies)
                    EXCEPT !.status = InitialStatus(tasks, dependencies)]
       IN  /\ tasks' = Put(tasks, task_id, task)
           /\ order' = Append(order, task_id)
           /\ op' = Call("add", task_id, None, NoAgent, TRUE, task_id, {})
    /\ nextId' = nextId + 1
    /\ history' = history + 1
    /\ UNCHANGED <<agents, now>>

\* the fields passed to update, as the call's record keeps them
Fields(priority, assigned_agent, deadline) ==
    [priority |-> priority, assigned_agent |-> assigned_agent, deadline |-> deadline]

\* mutant: the priority is assigned whether it was passed or not
UpdateAssignsPriority(task_id, priority, assigned_agent, deadline) ==
    IF task_id \notin Stored
    THEN /\ op' = Call("update", task_id, None, NoAgent, FALSE,
                       Fields(priority, assigned_agent, deadline), {})
         /\ UNCHANGED <<tasks, order, agents, history, nextId, now>>
    ELSE /\ history < MaxHist
         /\ tasks' = [tasks EXCEPT ![task_id] =
                [@ EXCEPT !.priority = priority,
                          !.assigned_agent = IF assigned_agent # NoneStr THEN assigned_agent ELSE @,
                          !.deadline = IF deadline # None THEN deadline ELSE @]]
         /\ history' = history + 1
         /\ op' = Call("update", task_id, None, NoAgent, TRUE,
                       Fields(priority, assigned_agent, deadline), {})
         /\ UNCHANGED <<order, agents, nextId, now>>

\* a field passed as None is left alone
update(task_id, priority, assigned_agent, deadline) ==
    IF task_id \notin Stored
    THEN /\ op' = Call("update", task_id, None, NoAgent, FALSE,
                       Fields(priority, assigned_agent, deadline), {})
         /\ UNCHANGED <<tasks, order, agents, history, nextId, now>>
    ELSE /\ history < MaxHist
         /\ tasks' = [tasks EXCEPT ![task_id] =
                [@ EXCEPT !.priority = IF priority # None THEN priority ELSE @,
                          !.assigned_agent = IF assigned_agent # NoneStr THEN assigned_agent ELSE @,
                          !.deadline = IF deadline # None THEN deadline ELSE @]]
         /\ history' = history + 1
         /\ op' = Call("update", task_id, None, NoAgent, TRUE,
                       Fields(priority, assigned_agent, deadline), {})
         /\ UNCHANGED <<order, agents, nextId, now>>

delete(task_id) ==
    IF task_id \notin Stored
    THEN /\ op' = Plain("delete", task_id, FALSE)
         /\ UNCHANGED <<tasks, order, agents, history, nextId, now>>
    ELSE /\ history < MaxHist
         /\ tasks' = Pop(tasks, task_id)
         /\ order' = ListRemove(order, task_id)
         /\ history' = history + 1
         /\ op' = Plain("delete", task_id, TRUE)
         /\ UNCHANGED <<agents, nextId, now>>

\* mutant: start does not test for BLOCKED
StartRefusedUnknownOnly(ts, task_id) == task_id \notin DOMAIN ts

\* the guard of start: unknown or BLOCKED tasks are refused
StartRefused(ts, task_id) == task_id \notin DOMAIN ts \/ ts[task_id].status = BLOCKED

\* mutant: the agent's record is not bound to the task
StartWithoutBinding(task_id, agent) ==
    IF StartRefused(tasks, task_id)
    THEN /\ op' = Call("start", task_id, None, agent, FALSE, None, {})
         /\ UNCHANGED <<tasks, order, agents, history, nextId, now>>
    ELSE /\ history < MaxHist
         /\ tasks' = [tasks EXCEPT ![task_id] =
                [@ EXCEPT !.status = IN_PROGRESS,
                          !.assigned_agent = IF agent # NoAgent THEN agent ELSE @]]
         /\ history' = history + 1
         /\ op' = Call("start", task_id, None, agent, TRUE, None, {})
         /\ UNCHANGED <<order, agents, nextId, now>>

start(task_id, agent) ==
    IF StartRefused(tasks, task_id)
    THEN /\ op' = Call("start", task_id, None, agent, FALSE, None, {})
         /\ UNCHANGED <<tasks, order, agents, history, nextId, now>>
    ELSE /\ history < MaxHist
         /\ tasks' = [tasks EXCEPT ![task_id] =
                [@ EXCEPT !.status = IN_PROGRESS,
                          !.assigned_agent = IF agent # NoAgent THEN agent ELSE @]]
         /\ agents' = IF agent # NoAgent /\ agent \in DOMAIN agents
                      THEN [agents EXCEPT ![agent] =
                               [@ EXCEPT !.current_task = task_id, !.available = FALSE]]
                      ELSE agents
         /\ history' = history + 1
         /\ op' = Call("start", task_id, None, agent, TRUE, None, {})
         /\ UNCHANGED <<order, nextId, now>>

\* mutant: the agent is made available but keeps its current task
FreedKeepsTask(agent_status) == [agent_status EXCEPT !.available = TRUE]

\* agent.current_task = None; agent.available = True
Freed(agent_status) == [agent_status EXCEPT !.current_task = None, !.available = TRUE]

\* mutant: complete does not run the recompute pass
CompleteWithoutPass(task_id) ==
    IF task_id \notin Stored
    THEN /\ op' = Plain("complete", task_id, FALSE)
         /\ UNCHANGED <<tasks, order, agents, history, nextId, now>>
    ELSE /\ history < MaxHist
         /\ LET done == [tasks EXCEPT ![task_id].status = COMPLETED]
                assigned == done[task_id].assigned_agent
            IN  /\ agents' = IF assigned \in DOMAIN agents
                             THEN [agents EXCEPT ![assigned] =
                                      [Freed(@) EXCEPT !.completed_today = @ + 1]]
                             ELSE agents
                /\ tasks' = done
                /\ op' = Call("complete", task_id, None, NoAgent, TRUE, None, {})
         /\ history' = history + 1
         /\ UNCHANGED <<order, nextId, now>>

complete(task_id) ==
    IF task_id \notin Stored
    THEN /\ op' = Plain("complete", task_id, FALSE)
         /\ UNCHANGED <<tasks, order, agents, history, nextId, now>>
    ELSE /\ history < MaxHist
         /\ LET done == [tasks EXCEPT ![task_id].status = COMPLETED]
                assigned == done[task_id].assigned_agent
            IN  /\ agents' = IF assigned \in DOMAIN agents
                             THEN [agents EXCEPT ![assigned] =
                                      [Freed(@) EXCEPT !.completed_today = @ + 1]]
                             ELSE agents
                /\ LET updated == UpdateBlockedStatus(done, order)
                   IN  /\ tasks' = updated
                       /\ op' = Call("complete", task_id, None, NoAgent, TRUE, None,
                                     Unblocked(done, updated))
         /\ history' = history + 1
         /\ UNCHANGED <<order, nextId, now>>

fail(task_id) ==
    IF task_id \notin Stored
    THEN /\ op' = Plain("fail", task_id, FALSE)
         /\ UNCHANGED <<tasks, order, agents, history, nextId, now>>
    ELSE /\ history < MaxHist
         /\ LET failed == [tasks EXCEPT ![task_id].status = FAILED]
                assigned == failed[task_id].assigned_agent
            IN  /\ agents' = IF assigned \in DOMAIN agents
                             THEN [agents EXCEPT ![assigned] = Freed(@)]
                             ELSE agents
                /\ tasks' = failed
         /\ history' = history + 1
         /\ op' = Plain("fail", task_id, TRUE)
         /\ UNCHANGED <<order, nextId, now>>

\* mutant: the agent branch tests the status the task had before the call
CancelFreesAgent(task_id) ==
    IF task_id \notin Stored
    THEN /\ op' = Plain("cancel", task_id, FALSE)
         /\ UNCHANGED <<tasks, order, agents, history, nextId, now>>
    ELSE /\ history < MaxHist
         /\ LET cancelled == [tasks EXCEPT ![task_id].status = CANCELLED]
                assigned == cancelled[task_id].assigned_agent
            IN  /\ agents' = IF assigned \in DOMAIN agents
                                /\ tasks[task_id].status = IN_PROGRESS
                             THEN [agents EXCEPT ![assigned] = Freed(@)]
                             ELSE agents
                /\ tasks' = cancelled
         /\ history' = history + 1
         /\ op' = Plain("cancel", task_id, TRUE)
         /\ UNCHANGED <<order, nextId, now>>

\* the status is overwritten before the agent branch tests it
cancel(task_id) ==
    IF task_id \notin Stored
    THEN /\ op' = Plain("cancel", task_id, FALSE)
         /\ UNCHANGED <<tasks, order, agents, history, nextId, now>>
    ELSE /\ history < MaxHist
         /\ LET cancelled == [tasks EXCEPT ![task_id].status = CANCELLED]
                assigned == cancelled[task_id].assigned_agent
            IN  /\ agents' = IF assigned \in DOMAIN agents
                                /\ cancelled[task_id].status = IN_PROGRESS
                             THEN [agents EXCEPT ![assigned] = Freed(@)]
                             ELSE agents
                /\ tasks' = cancelled
         /\ history' = history + 1
         /\ op' = Plain("cancel", task_id, TRUE)
         /\ UNCHANGED <<order, nextId, now>>

\* mutant: add_dependency does not look depends_on up in the store
DependencyRefusedTaskOnly(ts, task_id, depends_on) ==
    \/ task_id \notin DOMAIN ts
    \/ WouldCreateCycle(ts, task_id, depends_on)

\* the early returns of add_dependency: an unknown id, or a cycle
DependencyRefused(ts, task_id, depends_on) ==
    \/ task_id \notin DOMAIN ts
    \/ depends_on \notin DOMAIN ts
    \/ WouldCreateCycle(ts, task_id, depends_on)

add_dependency(task_id, depends_on) ==
    IF DependencyRefused(tasks, task_id, depends_on)
    THEN /\ op' = Call("add_dependency", task_id, depends_on, NoAgent, FALSE, None, {})
         /\ UNCHANGED <<tasks, order, agents, history, nextId, now>>
    ELSE /\ history < MaxHist
         /\ LET deps == tasks[task_id].dependencies
                added == [tasks EXCEPT ![task_id].dependencies =
                             IF depends_on \notin Range(deps)
                             THEN Append(deps, depends_on) ELSE deps]
                updated == UpdateBlockedStatus(added, order)
            IN  /\ tasks' = updated
                /\ op' = Call("add_dependency", task_id, depends_on, NoAgent, TRUE, None,
                              Unblocked(added, updated))
         /\ history' = history + 1
         /\ UNCHANGED <<order, agents, nextId, now>>

\* remove_dependency writes no history entry
remove_dependency(task_id, depends_on) ==
    IF task_id \notin Stored
    THEN /\ op' = Call("remove_dependency", task_id, depends_on, NoAgent, FALSE, None, {})
         /\ UNCHANGED <<tasks, order, agents, history, nextId, now>>
    ELSE /\ LET removed == [tasks EXCEPT ![task_id].dependencies = ListRemove(@, depends_on)]
                updated == UpdateBlockedStatus(removed, order)
            IN  /\ tasks' = updated
                /\ op' = Call("remove_dependency", task_id, depends_on, NoAgent, TRUE, None,
                              Unblocked(removed, updated))
         /\ UNCHANGED <<order, agents, history, nextId, now>>

\* task.calculate_score() on a stored task
calculate_score(task_id) ==
    /\ task_id \in Stored
    /\ op' = Call("calculate_score", task_id, None, NoAgent, TRUE,
                  CalculateScore(tasks[task_id], now), {})
    /\ UNCHANGED <<tasks, order, agents, history, nextId, now>>

\* datetime.fromisoformat(t.deadline) in get_stats raises ValueError: the
\* comprehension parses every deadline that is not empty, before it looks at
\* the status
StatsRaises(ts) == \E i \in DOMAIN ts : ts[i].deadline = Unparsable

\* the counts of get_stats kept by the model
Stats(ts, time) ==
    [total_tasks |-> Cardinality(DOMAIN ts),
     blocked_count |-> Cardinality({i \in DOMAIN ts : ts[i].status = BLOCKED}),
     overdue_count |-> Cardinality({i \in DOMAIN ts :
                          /\ ts[i].deadline # None
                          /\ ts[i].deadline < time
                          /\ ts[i].status \in {PENDING, BLOCKED}})]

\* get_stats runs no recompute pass
get_stats ==
    /\ op' = IF StatsRaises(tasks)
             THEN Call("get_stats", None, None, NoAgent, FALSE, None, {})
             ELSE Call("get_stats", None, None, NoAgent, TRUE, Stats(tasks, now), {})
    /\ UNCHANGED <<tasks, order, agents, history, nextId, now>>

\* export_queue: the snapshot holds the tasks and the result of get_stats
export_queue ==
    /\ op' = IF StatsRaises(tasks)
             THEN Call("export_queue", None, None, NoAgent, FALSE, None, {})
             ELSE Call("export_queue", None, None, NoAgent, TRUE,
                       [tasks |-> tasks, stats |-> Stats(tasks, now)], {})
    /\ UNCHANGED <<tasks, order, agents, history, nextId, now>>

\* get: the stored task (here its id), or None
get(task_id) ==
    /\ op' = Call("get", task_id, None, NoAgent, TRUE,
                  IF task_id \in Stored THEN task_id ELSE None, {})
    /\ UNCHANGED <<tasks, order, agents, history, nextId, now>>

\* mutant: the read ranks the statuses as they are
RefreshSkipped(ts, ord) == ts

\* the statuses get_next and get_queue rank: they run the recompute pass first
Refreshed(ts, ord) == UpdateBlockedStatus(ts, ord)

\* mutant: the task handed out is assigned to the asking agent
GetNextAssigns(agent) ==
    /\ LET refreshed == Refreshed(tasks, order)
           candidate == NextCandidate(refreshed, order, agent, now)
       IN  /\ tasks' = IF candidate # None /\ agent # NoAgent
                       THEN [refreshed EXCEPT ![candidate].assigned_agent = agent]
                       ELSE refreshed
           /\ op' = Call("get_next", None, None, agent, TRUE, candidate,
                         Unblocked(tasks, refreshed))
    /\ UNCHANGED <<order, agents, history, nextId, now>>

get_next(agent) ==
    /\ LET refreshed == Refreshed(tasks, order)
       IN  /\ tasks' = refreshed
           /\ op' = Call("get_next", None, None, agent, TRUE,
                         NextCandidate(refreshed, order, agent, now),
                         Unblocked(tasks, refreshed))
    /\ UNCHANGED <<order, agents, history, nextId, now>>

\* the filters and the limit passed to get_queue, with the list it returned
Listing(status, category, priority, limit, result) ==
    [status |-> status, category |-> category, priority |-> priority, limit |-> limit,
     result |-> result]

get_queue(status, agent, category, priority, limit) ==
    /\ LET refreshed == Refreshed(tasks, order)
       IN  /\ tasks' = refreshed
           /\ op' = Call("get_queue", None, None, agent, TRUE,
                         Listing(status, category, priority, limit,
                                 QueueCandidates(refreshed, order, status, agent, category,
                                                 priority, limit, now)),
                         Unblocked(tasks, refreshed))
    /\ UNCHANGED <<order, agents, history, nextId, now>>

\* import_queue: entries are stored in the order of data["tasks"]; with
\* merge, an id already stored is skipped
RECURSIVE ImportFrom(_, _, _, _, _)
ImportFrom(ts, ord, data, i, merge) ==
    IF i > Len(data) THEN <<ts, ord>>
    ELSE IF merge /\ data[i].id \in DOMAIN ts THEN ImportFrom(ts, ord, data, i + 1, merge)
    ELSE ImportFrom(Put(ts, data[i].id, data[i]), PutOrder(ord, ts, data[i].id),
                    data, i + 1, merge)

import_queue(data, merge) ==
    LET start_ts == IF merge THEN tasks ELSE <<>>
        start_ord == IF merge THEN order ELSE <<>>
        loaded == ImportFrom(start_ts, start_ord, data, 1, merge)
        updated == UpdateBlockedStatus(loaded[1], loaded[2])
    IN  /\ tasks' = updated
        /\ order' = loaded[2]
        /\ op' = Call("import_queue", None, None, NoAgent, merge,
                      Cardinality({i \in 1..Len(data) :
                          ~(merge /\ data[i].id \in Stored)}),
                      Unblocked(loaded[1], updated))
        /\ UNCHANGED <<agents, history, nextId, now>>

\* ---------------------------------------------------- calls step by step
\* A thread enters a method and reaches "with self._lock:".
call(th, name, task_id, agent) ==
    /\ threads[th].pc = "idle"
    /\ threads' = [threads EXCEPT ![th] =
            [Idle EXCEPT !.name = name, !.task_id = task_id, !.agent = agent,
                         !.pc = "waiting"]]
    /\ UNCHANGED <<tasks, order, agents, history, nextId, now, op, lock>>

\* mutant: the method body is entered whoever holds the lock
LockIgnored(holder) == TRUE

\* threading.Lock.acquire succeeds only on a lock nobody holds
LockFree(holder) == holder = Unlocked

\* __enter__ of "with self._lock:"
acquire(th) ==
    /\ threads[th].pc = "waiting"
    /\ LockFree(lock)
    /\ lock' = th
    /\ threads' = [threads EXCEPT ![th] =
            [@ EXCEPT !.pc = "locked", !.before = <<tasks, agents, history>>]]
    /\ UNCHANGED <<tasks, order, agents, history, nextId, now, op>>

\* "return" inside the with block: __exit__ releases the lock
Returned(th, ret, unblocked) ==
    /\ lock' = Unlocked
    /\ threads' = [threads EXCEPT ![th] = [@ EXCEPT !.pc = "done"]]
    /\ op' = Call(threads[th].name, threads[th].task_id, None, threads[th].agent, ret,
                  None, unblocked)

\* start, lines 518-525: the lookup, the BLOCKED test, task.status = IN_PROGRESS
start_status(th) ==
    /\ threads[th].name = "start" /\ threads[th].pc = "locked"
    /\ IF StartRefused(tasks, threads[th].task_id)
       THEN /\ Returned(th, FALSE, {})
            /\ UNCHANGED <<tasks, order, agents, history, nextId, now>>
       ELSE /\ tasks' = [tasks EXCEPT ![threads[th].task_id].status = IN_PROGRESS]
            /\ threads' = [threads EXCEPT ![th] = [@ EXCEPT !.pc = "agent"]]
            /\ UNCHANGED <<order, agents, history, nextId, now, op, lock>>

\* start, lines 528-536: the agent binding, the log entry, return True
start_finish(th) ==
    /\ threads[th].name = "start" /\ threads[th].pc = "agent"
    /\ LET task_id == threads[th].task_id
           agent == threads[th].agent
       IN  /\ tasks' = [tasks EXCEPT ![task_id].assigned_agent =
                            IF agent # NoAgent THEN agent ELSE @]
           /\ agents' = IF agent # NoAgent /\ agent \in DOMAIN agents
                        THEN [agents EXCEPT ![agent] =
                                 [@ EXCEPT !.current_task = task_id, !.available = FALSE]]
                        ELSE agents
    /\ history' = history + 1
    /\ Returned(th, TRUE, {})
    /\ UNCHANGED <<order, nextId, now>>

\* complete, lines 550-554: the lookup, task.status = COMPLETED
complete_status(th) ==
    /\ threads[th].name = "complete" /\ threads[th].pc = "locked"
    /\ IF threads[th].task_id \notin Stored
       THEN /\ Returned(th, FALSE, {})
            /\ UNCHANGED <<tasks, order, agents, history, nextId, now>>
       ELSE /\ tasks' = [tasks EXCEPT ![threads[th].task_id].status = COMPLETED]
            /\ threads' = [threads EXCEPT ![th] = [@ EXCEPT !.pc = "agent"]]
            /\ UNCHANGED <<order, agents, history, nextId, now, op, lock>>

\* complete, lines 568-574: the assigned agent is freed
complete_agent(th) ==
    /\ threads[th].name = "complete" /\ threads[th].pc = "agent"
    /\ LET assigned == tasks[threads[th].task_id].assigned_agent
       IN  agents' = IF assigned \in DOMAIN agents
                     THEN [agents EXCEPT ![assigned] =
                              [Freed(@) EXCEPT !.completed_today = @ + 1]]
                     ELSE agents
    /\ threads' = [threads EXCEPT ![th] = [@ EXCEPT !.pc = "pass"]]
    /\ UNCHANGED <<tasks, order, history, nextId, now, op, lock>>

\* complete, lines 577-581: the recompute pass, the log entry, return True
complete_finish(th) ==
    /\ threads[th].name = "complete" /\ threads[th].pc = "pass"
    /\ LET updated == UpdateBlockedStatus(tasks, order)
       IN  /\ tasks' = updated
           /\ Returned(th, TRUE, Unblocked(tasks, updated))
    /\ history' = history + 1
    /\ UNCHANGED <<order, agents, nextId, now>>

\* start run alone on the store a thread found: the tasks, agents and history
\* it leaves
StartAtOnce(before, task_id, agent) ==
    IF StartRefused(before[1], task_id) THEN before
    ELSE <<[before[1] EXCEPT ![task_id] =
                [@ EXCEPT !.status = IN_PROGRESS,
                          !.assigned_agent = IF agent # NoAgent THEN agent ELSE @]],
           IF agent # NoAgent /\ agent \in DOMAIN before[2]
           THEN [before[2] EXCEPT ![agent] =
                    [@ EXCEPT !.current_task = task_id, !.available = FALSE]]
           ELSE before[2],
           before[3] + 1>>

\* complete run alone on the store a thread found
CompleteAtOnce(before, ord, task_id) ==
    IF task_id \notin DOMAIN before[1] THEN before
    ELSE LET done == [before[1] EXCEPT ![task_id].status = COMPLETED]
             assigned == done[task_id].assigned_agent
         IN  <<UpdateBlockedStatus(done, ord),
               IF assigned \in DOMAIN before[2]
               THEN [before[2] EXCEPT ![assigned] =
                        [Freed(@) EXCEPT !.completed_today = @ + 1]]
               ELSE before[2],
               before[3] + 1>>

\* the status one turn of the loop of _update_blocked_status assigns to the
\* task, "" when it assigns none: BLOCKED is assigned to every unfinished task
\* with an unmet dependency, also to one that is BLOCKED already
Assigned(ts, t) ==
    IF t.status \in {COMPLETED, CANCELLED, FAILED, IN_PROGRESS} THEN ""
    ELSE IF Len(t.dependencies) > 0
         THEN IF ~AllDepsComplete(ts, t.dependencies) THEN BLOCKED
              ELSE IF t.status = BLOCKED THEN PENDING ELSE ""
         ELSE IF t.status = BLOCKED THEN PENDING ELSE ""

\* get_next on a thread of its own, without the lock: line 727 starts the
\* iteration over self._tasks.values()
read_call(th, agent) ==
    /\ threads[th].pc = "idle"
    /\ threads' = [threads EXCEPT ![th] =
            [Idle EXCEPT !.name = "get_next", !.agent = agent, !.pc = "check",
                         !.size = Len(order), !.i = 1]]
    /\ UNCHANGED <<tasks, order, agents, history, nextId, now, op, lock>>

\* one turn of the loop of _update_blocked_status up to the assignment: the
\* iterator raises RuntimeError when the dict changed size; after the last
\* task the read selects its candidate and returns; otherwise the task's
\* status and its dependencies' statuses are read and the status to assign
\* is decided
read_check(th) ==
    /\ threads[th].name = "get_next" /\ threads[th].pc = "check"
    /\ IF Len(order) # threads[th].size
       THEN /\ threads' = [threads EXCEPT ![th] = [@ EXCEPT !.pc = "done"]]
            /\ op' = Call("get_next", None, None, threads[th].agent, FALSE, None, {})
            /\ UNCHANGED <<tasks, order, agents, history, nextId, now, lock>>
       ELSE IF threads[th].i > threads[th].size
       THEN /\ threads' = [threads EXCEPT ![th] = [@ EXCEPT !.pc = "done"]]
            /\ op' = Call("get_next", None, None, threads[th].agent, TRUE,
                          NextCandidate(tasks, order, threads[th].agent, now),
                          threads[th].moved)
            /\ UNCHANGED <<tasks, order, agents, history, nextId, now, lock>>
       ELSE LET assigned == Assigned(tasks, tasks[order[threads[th].i]])
            IN  /\ threads' = [threads EXCEPT ![th] =
                        IF assigned = ""
                        THEN [@ EXCEPT !.i = @ + 1]
                        ELSE [@ EXCEPT !.pc = "write", !.write = assigned]]
                /\ UNCHANGED <<tasks, order, agents, history, nextId, now, op, lock>>

\* the assignment task.status = ... of the loop, on the task object read
\* in the turn's first half
read_write(th) ==
    /\ threads[th].name = "get_next" /\ threads[th].pc = "write"
    /\ LET task_id == order[threads[th].i]
       IN  /\ tasks' = [tasks EXCEPT ![task_id].status = threads[th].write]
           /\ threads' = [threads EXCEPT ![th] =
                   [@ EXCEPT !.pc = "check", !.i = @ + 1, !.write = "",
                             !.moved = IF threads[th].write = PENDING
                                       THEN @ \cup {task_id} ELSE @]]
    /\ UNCHANGED <<order, agents, history, nextId, now, op, lock>>

\* ----------------------------------------------------------- worker loop
\* A worker that repeats task = get_next(); start(task.id, agent);
\* complete(task.id) and stops when get_next returns None.  Its position and
\* the id get_next returned are kept in the thread's record.
worker_begin(th) ==
    /\ threads[th].pc = "idle"
    /\ threads' = [threads EXCEPT ![th] = [Idle EXCEPT !.name = "worker", !.pc = "get_next"]]
    /\ UNCHANGED <<tasks, order, agents, history, nextId, now, op, lock>>

worker_get_next(th) ==
    /\ threads[th].name = "worker" /\ threads[th].pc = "get_next"
    /\ get_next(NoAgent)
    /\ LET task == NextCandidate(Refreshed(tasks, order), order, NoAgent, now)
       IN  threads' = [threads EXCEPT ![th] =
               [@ EXCEPT !.task_id = task,
                         !.pc = IF task = None THEN "done" ELSE "start"]]
    /\ UNCHANGED lock

worker_start(th, agent) ==
    /\ threads[th].name = "worker" /\ threads[th].pc = "start"
    /\ LET task_id == threads[th].task_id
           left == StartAtOnce(<<tasks, agents, history>>, task_id, agent)
       IN  /\ tasks' = left[1] /\ agents' = left[2] /\ history' = left[3]
           /\ op' = Call("start", task_id, None, agent, ~StartRefused(tasks, task_id),
                         None, {})
    /\ threads' = [threads EXCEPT ![th] = [@ EXCEPT !.pc = "complete"]]
    /\ UNCHANGED <<order, nextId, now, lock>>

worker_complete(th) ==
    /\ threads[th].name = "worker" /\ threads[th].pc = "complete"
    /\ LET task_id == threads[th].task_id
           left == CompleteAtOnce(<<tasks, agents, history>>, order, task_id)
       IN  /\ tasks' = left[1] /\ agents' = left[2] /\ history' = left[3]
           /\ op' = Call("complete", task_id, None, NoAgent, task_id \in Stored, None,
                         Unblocked([tasks EXCEPT ![task_id].status = COMPLETED], left[1]))
    /\ threads' = [threads EXCEPT ![th] = [@ EXCEPT !.pc = "get_next"]]
    /\ UNCHANGED <<order, nextId, now, lock>>

\* wall-clock time passes between calls: datetime.now() moves on by hours
tick(hours) ==
    /\ now + hours <= MaxNow
    /\ now' = now + hours
    /\ op' = Plain("tick", None, TRUE)
    /\ UNCHANGED <<tasks, order, agents, history, nextId>>

\* exported task records offered to import_queue
ImportStatusArgs == {PENDING, COMPLETED}
ImportRecords ==
    {[Task(Foreign, 3, "OTHER", ANY, 0, None, deps) EXCEPT !.status = st] :
        st \in ImportStatusArgs, deps \in SeqsUpTo(Known, 1)}
ImportArgs == {<<>>} \cup {<<r>> : r \in ImportRecords}

\* The store: every operation, with default priority and no deadline.
Next ==
    \/ /\ \E dependencies \in DepArgs : add(3, "OTHER", ANY, None, dependencies)
       /\ UNCHANGED <<lock, threads>>
    \/ /\ \E task_id \in Known, assigned_agent \in {NoneStr, "ATLAS"} :
               update(task_id, None, assigned_agent, None)
       /\ UNCHANGED <<lock, threads>>
    \/ /\ \E task_id \in Known : delete(task_id)
       /\ UNCHANGED <<lock, threads>>
    \/ /\ \E task_id \in Known, agent \in StartArgs : start(task_id, agent)
       /\ UNCHANGED <<lock, threads>>
    \/ /\ \E task_id \in Known : complete(task_id)
       /\ UNCHANGED <<lock, threads>>
    \/ /\ \E task_id \in Known : fail(task_id)
       /\ UNCHANGED <<lock, threads>>
    \/ /\ \E task_id \in Known : cancel(task_id)
       /\ UNCHANGED <<lock, threads>>
    \/ /\ \E task_id \in Known, depends_on \in Known : add_dependency(task_id, depends_on)
       /\ UNCHANGED <<lock, threads>>
    \/ /\ \E task_id \in Known, depends_on \in Known : remove_dependency(task_id, depends_on)
       /\ UNCHANGED <<lock, threads>>
    \/ /\ \E agent \in StartArgs : get_next(agent)
       /\ UNCHANGED <<lock, threads>>
    \/ /\ \E data \in ImportArgs, merge \in BOOLEAN : import_queue(data, merge)
       /\ UNCHANGED <<lock, threads>>

Spec == Init /\ [][Next]_vars

\* The selector over time: tasks of several priorities, with and without a
\* deadline, ready or waiting for a dependency that is not stored, are added
\* and ranked while the clock moves through the age and deadline brackets.
RankPriorityArgs == {1, 3}
RankDeadlineArgs == {None, 40}
RankDepArgs == {<<>>, <<Foreign>>}
TickArgs == {30}

NextRank ==
    \/ /\ \E priority \in RankPriorityArgs, deadline \in RankDeadlineArgs,
             dependencies \in RankDepArgs :
               add(priority, "OTHER", ANY, deadline, dependencies)
       /\ UNCHANGED <<lock, threads>>
    \/ /\ \E hours \in TickArgs : tick(hours)
       /\ UNCHANGED <<lock, threads>>
    \/ /\ get_next(NoAgent)
       /\ UNCHANGED <<lock, threads>>

SpecRank == Init /\ [][NextRank]_vars

\* The selector per agent: tasks assigned to the wildcard and to two roster
\* agents, ready or waiting, are added, started and ranked for either agent.
AgentAssignedArgs == {ANY, "ATLAS", "FORGE"}
AgentNextArgs == {"ATLAS", "FORGE"}

NextAgent ==
    \/ /\ \E assigned_agent \in AgentAssignedArgs, dependencies \in RankDepArgs :
               add(3, "OTHER", assigned_agent, None, dependencies)
       /\ UNCHANGED <<lock, threads>>
    \/ /\ \E task_id \in Known, agent \in StartArgs : start(task_id, agent)
       /\ UNCHANGED <<lock, threads>>
    \/ /\ \E agent \in AgentNextArgs : get_next(agent)
       /\ UNCHANGED <<lock, threads>>

SpecAgent == Init /\ [][NextAgent]_vars

\* The store by id: every operation that takes a task id, called with ids of
\* stored tasks, of deleted tasks and with ids that were never stored.
NextById ==
    \/ /\ \E dependencies \in DepArgs : add(3, "OTHER", ANY, None, dependencies)
       /\ UNCHANGED <<lock, threads>>
    \/ /\ \E task_id \in Known : get(task_id)
       /\ UNCHANGED <<lock, threads>>
    \/ /\ \E task_id \in Known, priority \in {None, 1}, assigned_agent \in {NoneStr, "FORGE"},
             deadline \in RankDeadlineArgs :
               update(task_id, priority, assigned_agent, deadline)
       /\ UNCHANGED <<lock, threads>>
    \/ /\ \E task_id \in Known : delete(task_id)
       /\ UNCHANGED <<lock, threads>>
    \/ /\ \E task_id \in Known : start(task_id, "ATLAS")
       /\ UNCHANGED <<lock, threads>>
    \/ /\ \E task_id \in Known : complete(task_id)
       /\ UNCHANGED <<lock, threads>>
    \/ /\ \E task_id \in Known : fail(task_id)
       /\ UNCHANGED <<lock, threads>>
    \/ /\ \E task_id \in Known : cancel(task_id)
       /\ UNCHANGED <<lock, threads>>
    \/ /\ \E task_id \in Known, depends_on \in Known : add_dependency(task_id, depends_on)
       /\ UNCHANGED <<lock, threads>>
    \/ /\ \E task_id \in Known, depends_on \in Known : remove_dependency(task_id, depends_on)
       /\ UNCHANGED <<lock, threads>>

SpecById == Init /\ [][NextById]_vars

\* The dependency lists: add is given lists of up to two ids, repeated ids
\* included, and the lists are extended and shortened afterwards.
ListDepArgs == SeqsUpTo(Known, 2)

NextDeps ==
    \/ /\ \E dependencies \in ListDepArgs : add(3, "OTHER", ANY, None, dependencies)
       /\ UNCHANGED <<lock, threads>>
    \/ /\ \E task_id \in Known, depends_on \in Known : add_dependency(task_id, depends_on)
       /\ UNCHANGED <<lock, threads>>
    \/ /\ \E task_id \in Known, depends_on \in Known : remove_dependency(task_id, depends_on)
       /\ UNCHANGED <<lock, threads>>

SpecDeps == Init /\ [][NextDeps]_vars

\* The listing: tasks of three kinds (priority, category, assigned agent),
\* ready or waiting, are added and listed under every combination of filters.
QueueAddArgs == {<<3, "OTHER", ANY>>, <<1, "BUGFIX", "FORGE">>, <<1, "OTHER", "ATLAS">>}
QueueStatusArgs == {NoneStr, PENDING}
QueueCategoryArgs == {NoneStr, "BUGFIX"}
QueuePriorityArgs == {None, 1}
QueueLimitArgs == {0, 1, 50}

NextQueue ==
    \/ /\ \E kind \in QueueAddArgs, dependencies \in RankDepArgs :
               add(kind[1], kind[2], kind[3], None, dependencies)
       /\ UNCHANGED <<lock, threads>>
    \/ /\ \E status \in QueueStatusArgs, agent \in StartArgs, category \in QueueCategoryArgs,
             priority \in QueuePriorityArgs, limit \in QueueLimitArgs :
               get_queue(status, agent, category, priority, limit)
       /\ UNCHANGED <<lock, threads>>

SpecQueue == Init /\ [][NextQueue]_vars

\* The score function: one task of any priority, with no deadline, an
\* unparsable one or one of four deadlines, ready or waiting, is added at some
\* hour and scored, ranked, listed, counted and exported as the clock moves on.
ScoreDeadlineArgs == {None, Unparsable, 30, 32, 40, 100}

NextScore ==
    \/ /\ /\ Stored = {}
          /\ \E priority \in TaskPriority, deadline \in ScoreDeadlineArgs,
                dependencies \in RankDepArgs :
                  add(priority, "OTHER", ANY, deadline, dependencies)
       /\ UNCHANGED <<lock, threads>>
    \/ /\ \E hours \in TickArgs : tick(hours)
       /\ UNCHANGED <<lock, threads>>
    \/ /\ \E task_id \in Known : calculate_score(task_id)
       /\ UNCHANGED <<lock, threads>>
    \/ /\ get_next(NoAgent)
       /\ UNCHANGED <<lock, threads>>
    \/ /\ get_queue(NoneStr, NoAgent, NoneStr, None, 50)
       /\ UNCHANGED <<lock, threads>>
    \/ /\ get_stats
       /\ UNCHANGED <<lock, threads>>
    \/ /\ export_queue
       /\ UNCHANGED <<lock, threads>>

SpecScore == Init /\ [][NextScore]_vars

\* Reads between the calls that leave statuses behind for the next pass:
\* start and delete run no recompute pass.
NextFrame ==
    \/ /\ \E dependencies \in DepArgs : add(3, "OTHER", ANY, None, dependencies)
       /\ UNCHANGED <<lock, threads>>
    \/ /\ \E data \in ImportArgs : import_queue(data, TRUE)
       /\ UNCHANGED <<lock, threads>>
    \/ /\ \E task_id \in Known : start(task_id, "ATLAS")
       /\ UNCHANGED <<lock, threads>>
    \/ /\ \E task_id \in Known : delete(task_id)
       /\ UNCHANGED <<lock, threads>>
    \/ /\ \E agent \in StartArgs : get_next(agent)
       /\ UNCHANGED <<lock, threads>>
    \/ /\ \E agent \in StartArgs : get_queue(NoneStr, agent, NoneStr, None, 50)
       /\ UNCHANGED <<lock, threads>>

SpecFrame == Init /\ [][NextFrame]_vars

\* Dependency graphs with cycles, self-loops and ids that are not stored, as
\* import_queue loads them unchecked, and add_dependency searching them.
CycleImportArgs ==
    {<<Task(Foreign, 3, "OTHER", ANY, 0, None, deps)>> : deps \in ListDepArgs}
NextCycle ==
    \/ /\ \E dependencies \in DepArgs : add(3, "OTHER", ANY, None, dependencies)
       /\ UNCHANGED <<lock, threads>>
    \/ /\ \E data \in CycleImportArgs : import_queue(data, TRUE)
       /\ UNCHANGED <<lock, threads>>
    \/ /\ \E task_id \in Known, depends_on \in Known : add_dependency(task_id, depends_on)
       /\ UNCHANGED <<lock, threads>>

SpecCycle == Init /\ [][NextCycle]_vars

\* One task scored while the clock moves in steps that land on the edges of
\* the deadline brackets (0, 1, 4, 24 and 72 hours before the deadline) and
\* of the age brackets (24 and 72 hours after creation).
BracketDeadlineArgs == {None, Unparsable, 24, 25, 28, 48, 96}
BracketTickArgs == {6, 24}
NextBracket ==
    \/ /\ /\ Stored = {}
          /\ \E priority \in TaskPriority, deadline \in BracketDeadlineArgs,
                dependencies \in RankDepArgs :
                  add(priority, "OTHER", ANY, deadline, dependencies)
       /\ UNCHANGED <<lock, threads>>
    \/ /\ \E hours \in BracketTickArgs : tick(hours)
       /\ UNCHANGED <<lock, threads>>
    \/ /\ \E task_id \in Known : calculate_score(task_id)
       /\ UNCHANGED <<lock, threads>>

SpecBracket == Init /\ [][NextBracket]_vars

\* Two tasks loaded from an exported queue, one of them possibly assigned
\* to ATLAS, and agents starting, completing and failing them.
CapacityIds == {Foreign, Foreign + 1}
CapacityImportArgs ==
    {<<Task(Foreign, 3, "OTHER", assigned_agent, 0, None, <<>>),
       Task(Foreign + 1, 3, "OTHER", ANY, 0, None, <<>>)>> :
        assigned_agent \in AssignedArgs}
CapacityAgentArgs == {"ATLAS", "FORGE"}
NextCapacity ==
    \/ /\ \E data \in CapacityImportArgs, merge \in BOOLEAN : import_queue(data, merge)
       /\ UNCHANGED <<lock, threads>>
    \/ /\ \E task_id \in CapacityIds, agent \in CapacityAgentArgs : start(task_id, agent)
       /\ UNCHANGED <<lock, threads>>
    \/ /\ \E task_id \in CapacityIds : complete(task_id)
       /\ UNCHANGED <<lock, threads>>
    \/ /\ \E task_id \in CapacityIds : fail(task_id)
       /\ UNCHANGED <<lock, threads>>
    \/ /\ \E agent \in CapacityAgentArgs : get_next(agent)
       /\ UNCHANGED <<lock, threads>>

SpecCapacity == Init /\ [][NextCapacity]_vars

\* Tasks of equal score: two priorities and three deadlines, so that after 41
\* hours a priority 3 task overdue by an hour (3 * 0.1) meets a priority 1 task
\* due within the hour (1 * 0.3); read by get_next and by get_queue unfiltered.
TiePriorityArgs == {1, 3}
TieDeadlineArgs == {None, 40, 41}
TieTickArgs == {41}
TieLimitArgs == {50}

NextTie ==
    \/ /\ \E priority \in TiePriorityArgs, deadline \in TieDeadlineArgs,
             dependencies \in RankDepArgs :
               add(priority, "OTHER", ANY, deadline, dependencies)
       /\ UNCHANGED <<lock, threads>>
    \/ /\ \E hours \in TieTickArgs : tick(hours)
       /\ UNCHANGED <<lock, threads>>
    \/ /\ get_next(NoAgent)
       /\ UNCHANGED <<lock, threads>>
    \/ /\ \E limit \in TieLimitArgs : get_queue(NoneStr, NoAgent, NoneStr, None, limit)
       /\ UNCHANGED <<lock, threads>>

SpecTie == Init /\ [][NextTie]_vars

\* A store is built by add, import_queue, start and complete; then the worker
\* loop runs and nothing else does.  The loop's steps are taken whenever they
\* stay enabled: the worker never stops by itself.
Worker == "worker_1"
NextWorker ==
    \/ /\ threads[Worker].pc = "idle"
       /\ \E dependencies \in DepArgs : add(3, "OTHER", ANY, None, dependencies)
       /\ UNCHANGED <<lock, threads>>
    \/ /\ threads[Worker].pc = "idle"
       /\ \E data \in ImportArgs : import_queue(data, TRUE)
       /\ UNCHANGED <<lock, threads>>
    \/ /\ threads[Worker].pc = "idle"
       /\ \E task_id \in Known : start(task_id, "ATLAS")
       /\ UNCHANGED <<lock, threads>>
    \/ /\ threads[Worker].pc = "idle"
       /\ \E task_id \in Known : complete(task_id)
       /\ UNCHANGED <<lock, threads>>
    \/ worker_begin(Worker)
    \/ worker_get_next(Worker)
    \/ worker_start(Worker, "ATLAS")
    \/ worker_complete(Worker)

\* the loop is at its get_next call: exactly the states where worker_get_next
\* is enabled, and every such step changes threads
AtGetNext == threads[Worker].name = "worker" /\ threads[Worker].pc = "get_next"

\* the loop's thread keeps running: each of its steps is weakly fair. For
\* worker_get_next the fairness is written out, WF_vars(A) being
\* []<>~ENABLED <<A>>_vars \/ []<><<A>>_vars with AtGetNext for the ENABLED.
WorkerFair ==
    /\ WF_vars(worker_start(Worker, "ATLAS"))
    /\ WF_vars(worker_complete(Worker))
    /\ ([]<>(~AtGetNext) \/ []<><<worker_get_next(Worker)>>_vars)

SpecWorker == Init /\ [][NextWorker]_vars /\ WorkerFair

\* Two threads, each inside start or complete, interleaved step by step; add
\* runs while nobody holds the lock.
ThreadCallArgs == {<<"start", "ATLAS">>, <<"complete", NoAgent>>}
NextLock ==
    \/ /\ lock = Unlocked
       /\ \E dependencies \in DepArgs : add(3, "OTHER", ANY, None, dependencies)
       /\ UNCHANGED <<lock, threads>>
    \/ \E th \in Threads, c \in ThreadCallArgs, task_id \in Known :
            call(th, c[1], task_id, c[2])
    \/ \E th \in Threads : acquire(th)
    \/ \E th \in Threads : start_status(th)
    \/ \E th \in Threads : start_finish(th)
    \/ \E th \in Threads : complete_status(th)
    \/ \E th \in Threads : complete_agent(th)
    \/ \E th \in Threads : complete_finish(th)

SpecLock == Init /\ [][NextLock]_vars

\* One thread inside get_next, step by step and without the lock, while add,
\* remove_dependency, start and complete run on other threads, each under
\* the lock.
NextRace ==
    \/ /\ \E dependencies \in DepArgs : add(3, "OTHER", ANY, None, dependencies)
       /\ UNCHANGED <<lock, threads>>
    \/ /\ \E task_id \in Known, depends_on \in Known :
               remove_dependency(task_id, depends_on)
       /\ UNCHANGED <<lock, threads>>
    \/ /\ \E task_id \in Known : start(task_id, "ATLAS")
       /\ UNCHANGED <<lock, threads>>
    \/ /\ \E task_id \in Known : complete(task_id)
       /\ UNCHANGED <<lock, threads>>
    \/ read_call("worker_1", NoAgent)
    \/ read_check("worker_1")
    \/ read_write("worker_1")

SpecRace == Init /\ [][NextRace]_vars

\* ============================================================ properties
\* vocabulary of the claims, stated without the operators of the code
Terminal == {COMPLETED, FAILED, CANCELLED}

DepsOf(ts, id) == Range(ts[id].dependencies)

\* dependency d is present and COMPLETED
Completed(ts, d) == d \in DOMAIN ts /\ ts[d].status = COMPLETED

\* every listed dependency of the task is present and COMPLETED
DepsSatisfied(ts, id) == \A d \in DepsOf(ts, id) : Completed(ts, d)

\* the ids reachable from the ids of S in zero or more depends-on steps
RECURSIVE ReachSet(_, _)
ReachSet(ts, S) ==
    LET step == S \cup UNION {DepsOf(ts, i) : i \in S \cap DOMAIN ts}
    IN  IF step = S THEN S ELSE ReachSet(ts, step)

Reachable(ts, from, to) == to \in ReachSet(ts, {from})

\* ---- C1
\* C1: no stored task lists its own id as a dependency, and the depends-on
\* relation over the stored tasks has no cycle.
C1_NoDependencyCycle ==
    \A t \in Stored :
        /\ t \notin DepsOf(tasks, t)
        /\ \A d \in DepsOf(tasks, t) : ~Reachable(tasks, d, t)

\* ---- C2
\* C2: add_dependency(task_id, depends_on) with task_id reachable from
\* depends_on along existing dependency edges (depends_on = task_id included)
\* returns False and leaves tasks, agents and history unchanged.
C2_CycleRejected ==
    [][(op'.name = "add_dependency" /\ Reachable(tasks, op'.dep, op'.id))
         => (op'.ret = FALSE /\ UNCHANGED <<tasks, order, agents, history>>)]_vars

\* a call add_dependency(t, d) with t # d, both stored and d depending on t only
\* through a third task, has been refused
C2_Witness ==
    /\ op.name = "add_dependency"
    /\ op.ret = FALSE
    /\ op.id \in Stored /\ op.dep \in Stored /\ op.id # op.dep
    /\ op.id \notin DepsOf(tasks, op.dep)
    /\ Reachable(tasks, op.dep, op.id)

\* ---- C3
\* C3: when task A is BLOCKED and lists another task B, then right after
\* complete(B) returns True, A is PENDING if every dependency A lists is then
\* present and COMPLETED.
C3_UnblockedByComplete ==
    [][\A a \in Stored :
          (/\ op'.name = "complete" /\ op'.ret = TRUE
           /\ a # op'.id
           /\ tasks[a].status = BLOCKED
           /\ op'.id \in DepsOf(tasks, a)
           /\ a \in DOMAIN tasks'
           /\ DepsSatisfied(tasks', a))
          => tasks'[a].status = PENDING]_vars

\* complete(B) has returned True and its recompute pass moved A, which lists B,
\* from BLOCKED to PENDING
C3_Witness ==
    /\ op.name = "complete" /\ op.ret = TRUE
    /\ \E a \in Stored :
          /\ a \in op.unblocked
          /\ op.id \in DepsOf(tasks, a)
          /\ tasks[a].status = PENDING

\* ---- C4
\* C4: a task A that lists a dependency B which is not COMPLETED, and which was
\* not PENDING before the step (or was just stored), is not PENDING after the
\* step either, for as long as B stays in A's list and B is not COMPLETED: so
\* a task added with an incomplete dependency B is never PENDING before B is
\* COMPLETED.
C4_NotPendingBeforeDependency ==
    [][\A a \in DOMAIN tasks' :
          \A b \in DepsOf(tasks', a) :
             (/\ ~Completed(tasks, b)
              /\ ~Completed(tasks', b)
              /\ \/ a \notin Stored
                 \/ (tasks[a].status # PENDING /\ b \in DepsOf(tasks, a)))
             => tasks'[a].status # PENDING]_vars

\* a read has run while a task added with an incomplete dependency is stored
C4_Witness ==
    /\ op.name = "get_next"
    /\ \E a \in Stored \cap IDS :
          /\ tasks[a].status = BLOCKED
          /\ \E b \in DepsOf(tasks, a) : b \in Stored /\ tasks[b].status # COMPLETED

\* ---- C5
\* C5 as stated: a BLOCKED task stays BLOCKED across start, complete, fail,
\* cancel, update, add_dependency and reads for as long as one of its
\* dependencies is absent or not COMPLETED.
C5_BlockedStaysBlocked ==
    [][\A a \in Stored \cap DOMAIN tasks' :
          (/\ op'.name \in {"start", "complete", "fail", "cancel", "update",
                           "add_dependency", "get_next"}
           /\ tasks[a].status = BLOCKED
           /\ ~DepsSatisfied(tasks', a))
          => tasks'[a].status = BLOCKED]_vars

\* C5 amended: the same, except for complete, fail and cancel called on the
\* BLOCKED task itself, which set its status unconditionally.
C5_BlockedStaysUnlessFinished ==
    [][\A a \in Stored \cap DOMAIN tasks' :
          (/\ op'.name \in {"start", "complete", "fail", "cancel", "update",
                           "add_dependency", "get_next"}
           /\ ~(op'.name \in {"complete", "fail", "cancel"} /\ op'.id = a)
           /\ tasks[a].status = BLOCKED
           /\ ~DepsSatisfied(tasks', a))
          => tasks'[a].status = BLOCKED]_vars

\* a read has run its recompute pass while a BLOCKED task lists a dependency
\* that is not stored
C5_Witness ==
    /\ op.name = "get_next"
    /\ \E a \in Stored :
          /\ tasks[a].status = BLOCKED
          /\ \E d \in DepsOf(tasks, a) : d \notin Stored

\* ---- C6
MutatingOps == {"add", "update", "delete", "start", "complete", "fail", "cancel",
                "add_dependency", "remove_dependency"}

PendingTasksReady == \A t \in Stored : tasks[t].status = PENDING => DepsSatisfied(tasks, t)

\* C6 as stated: when a mutating operation returns, every PENDING task has all
\* its listed dependencies present and COMPLETED.
C6_PendingReadyAfterMutation == op.name \in MutatingOps => PendingTasksReady

\* C6 amended: this holds when complete, add_dependency or remove_dependency
\* returns True, the mutating operations that run the recompute pass.
C6_PendingReadyAfterRecompute ==
    (op.name \in {"complete", "add_dependency", "remove_dependency"} /\ op.ret = TRUE)
        => PendingTasksReady

\* complete has returned True and a PENDING task lists a dependency
C6_Witness ==
    /\ op.name = "complete" /\ op.ret = TRUE
    /\ \E t \in Stored : tasks[t].status = PENDING /\ DepsOf(tasks, t) # {}

\* ---- C7
\* C7: start on an unknown id or on a BLOCKED task returns False and changes
\* no task, no agent record and no history entry.
C7_StartRefused ==
    [][(op'.name = "start" /\ (op'.id \notin Stored \/ tasks[op'.id].status = BLOCKED))
         => (op'.ret = FALSE /\ UNCHANGED <<tasks, order, agents, history>>)]_vars

\* start with an agent has been refused on a stored BLOCKED task
C7_Witness ==
    /\ op.name = "start" /\ op.ret = FALSE /\ op.agent # NoAgent
    /\ op.id \in Stored /\ tasks[op.id].status = BLOCKED

\* ---- C8
StatusOps == {"start", "complete", "fail", "cancel", "update", "add_dependency",
              "remove_dependency", "get_next"}

\* C8 as stated: once COMPLETED, FAILED or CANCELLED, a task's status is not
\* changed by start, complete, fail, cancel, update, add_dependency,
\* remove_dependency or a read.
C8_TerminalIsFinal ==
    [][\A t \in Stored \cap DOMAIN tasks' :
          (op'.name \in StatusOps /\ tasks[t].status \in Terminal)
          => tasks'[t].status = tasks[t].status]_vars

\* C8 amended: the same, except for start, complete, fail and cancel called on
\* the task itself, which set its status whatever it was (start unless BLOCKED).
C8_TerminalKeptByOthers ==
    [][\A t \in Stored \cap DOMAIN tasks' :
          (/\ op'.name \in StatusOps
           /\ ~(op'.name \in {"start", "complete", "fail", "cancel"} /\ op'.id = t)
           /\ tasks[t].status \in Terminal)
          => tasks'[t].status = tasks[t].status]_vars

\* a read has run while a FAILED task with an incomplete dependency is stored
C8_Witness ==
    /\ op.name = "get_next"
    /\ \E t \in Stored : tasks[t].status = FAILED /\ ~DepsSatisfied(tasks, t)

\* ---- C9
\* C9: the task get_next returns is PENDING and each of its listed
\* dependencies is present and COMPLETED.
C9_NextIsReady ==
    (op.name = "get_next" /\ op.val # None)
        => /\ op.val \in Stored
           /\ tasks[op.val].status = PENDING
           /\ DepsSatisfied(tasks, op.val)

\* get_next has returned a task that lists a dependency
C9_Witness ==
    /\ op.name = "get_next" /\ op.val \in Stored
    /\ DepsOf(tasks, op.val) # {}

\* ---- C10
PendingTasks == {t \in Stored : tasks[t].status = PENDING}

\* C10: get_next() without an agent returns None exactly when no task is
\* PENDING after its recompute pass; otherwise it returns a PENDING task whose
\* score is at most the score of every PENDING task.
C10_NextIsBest ==
    (op.name = "get_next" /\ op.agent = NoAgent)
        => /\ op.val = None <=> PendingTasks = {}
           /\ op.val # None =>
                 /\ op.val \in PendingTasks
                 /\ \A t \in PendingTasks :
                       CalculateScore(tasks[op.val], now) <= CalculateScore(tasks[t], now)

\* get_next() has returned a task that was stored after a PENDING task of
\* strictly higher score
C10_Witness ==
    /\ op.name = "get_next" /\ op.agent = NoAgent /\ op.val \in Stored
    /\ \E t \in PendingTasks :
          /\ t < op.val
          /\ CalculateScore(tasks[op.val], now) < CalculateScore(tasks[t], now)

\* ---- C11
\* the PENDING tasks assigned to agent a or to the wildcard
PendingFor(a) == {t \in PendingTasks : tasks[t].assigned_agent \in {a, ANY}}

C12_AddInitialStatus ==
    [][op'.name = "add" =>
          /\ op'.id \notin Stored
          /\ DOMAIN tasks' = Stored \cup {op'.id}
          /\ tasks'[op'.id].status =
                IF \E d \in DepsOf(tasks', op'.id) : ~Completed(tasks, d)
                THEN BLOCKED ELSE PENDING
          /\ \A t \in Stored : tasks'[t] = tasks[t]
          /\ agents' = agents]_vars

\* add has stored a task as PENDING whose dependency list is not empty
C12_Witness ==
    /\ op.name = "add"
    /\ tasks[op.id].status = PENDING
    /\ DepsOf(tasks, op.id) # {}

C14_CompleteFreesAgent ==
    [][(op'.name = "complete" /\ op'.id \in Stored) =>
          /\ op'.ret = TRUE
          /\ op'.id \in DOMAIN tasks'
          /\ tasks'[op'.id].status = COMPLETED
          /\ tasks[op'.id].assigned_agent \in Roster =>
                LET a == tasks[op'.id].assigned_agent
                IN  /\ agents'[a].available = TRUE
                    /\ agents'[a].current_task = None
                    /\ agents'[a].completed_today = agents[a].completed_today + 1]_vars

\* complete has returned True on a task assigned to a roster agent, and the
\* agent has one completion counted
C14_Witness ==
    /\ op.name = "complete" /\ op.ret = TRUE /\ op.id \in Stored
    /\ tasks[op.id].assigned_agent \in Roster
    /\ agents[tasks[op.id].assigned_agent].completed_today = 1

\* ---- C15
\* C15: a start(id, a) call that returns True with a roster agent a sets the
\* task's status to IN_PROGRESS and its assigned_agent to a, leaves a
\* unavailable with current_task = id, and changes no other agent record.
C15_StartBindsAgent ==
    [][(op'.name = "start" /\ op'.ret = TRUE /\ op'.agent \in Roster) =>
          /\ op'.id \in DOMAIN tasks'
          /\ tasks'[op'.id].status = IN_PROGRESS
          /\ tasks'[op'.id].assigned_agent = op'.agent
          /\ agents'[op'.agent].available = FALSE
          /\ agents'[op'.agent].current_task = op'.id
          /\ \A b \in Roster \ {op'.agent} : agents'[b] = agents[b]]_vars

\* start has returned True with a roster agent on a task that was assigned to
\* the wildcard when it was stored
C15_Witness ==
    /\ op.name = "start" /\ op.ret = TRUE /\ op.agent \in Roster
    /\ op.id \in Stored \cap IDS
    /\ agents[op.agent].current_task = op.id

\* ---- C16
\* C16: cancel(id) on a stored task sets its status to CANCELLED and leaves
\* every agent record unchanged, also when the task was IN_PROGRESS and bound
\* to its assigned agent.
C16_CancelKeepsAgents ==
    [][(op'.name = "cancel" /\ op'.id \in Stored) =>
          /\ op'.ret = TRUE
          /\ op'.id \in DOMAIN tasks'
          /\ tasks'[op'.id].status = CANCELLED
          /\ agents' = agents]_vars

\* cancel has returned True on a task whose assigned agent is still
\* unavailable and bound to it
C16_Witness ==
    /\ op.name = "cancel" /\ op.ret = TRUE /\ op.id \in Stored
    /\ tasks[op.id].status = CANCELLED
    /\ tasks[op.id].assigned_agent \in Roster
    /\ agents[tasks[op.id].assigned_agent].current_task = op.id
    /\ agents[tasks[op.id].assigned_agent].available = FALSE

\* ---- C17
TaskIdOps == {"update", "delete", "start", "complete", "fail", "cancel",
              "remove_dependency"}

\* C17: update, delete, start, complete, fail, cancel and remove_dependency
\* called with an id that is not stored, and add_dependency called with either
\* id not stored, return False and leave tasks, agent records and history
\* unchanged; get with an id that is not stored returns None.
C17_UnknownIdRefused ==
    [][/\ (\/ op'.name \in TaskIdOps /\ op'.id \notin Stored
           \/ op'.name = "add_dependency"
                /\ (op'.id \notin Stored \/ op'.dep \notin Stored))
          => (op'.ret = FALSE /\ UNCHANGED <<tasks, order, agents, history>>)
       /\ (op'.name = "get" /\ op'.id \notin Stored)
          => (op'.val = None /\ UNCHANGED <<tasks, order, agents, history>>)]_vars

\* add_dependency has been refused for a stored task and a dependency id that
\* is not stored
C17_Witness ==
    /\ op.name = "add_dependency" /\ op.ret = FALSE
    /\ op.id \in Stored
    /\ op.dep \notin Stored

PassOps == {"complete", "add_dependency", "remove_dependency"}

PassHasRun ==
    \/ op.name \in PassOps /\ op.ret = TRUE
    \/ op.name \in {"get_next", "import_queue"}

\* C19: the recompute pass is idempotent: on every reachable store a second
\* pass gives every task the status the first pass gave it, and right after a
\* call that ran the pass another pass changes no status.
C19_PassIdempotent ==
    /\ UpdateBlockedStatus(UpdateBlockedStatus(tasks, order), order)
          = UpdateBlockedStatus(tasks, order)
    /\ PassHasRun => UpdateBlockedStatus(tasks, order) = tasks

\* import_queue has run the pass over a store in which a task lists itself,
\* and the pass has set that task to BLOCKED
C19_Witness ==
    /\ op.name = "import_queue"
    /\ \E t \in Stored : t \in DepsOf(tasks, t) /\ tasks[t].status = BLOCKED

\* ---- C20
OtherMutatingOps == {"add", "update", "delete", "start", "fail", "cancel",
                     "add_dependency", "remove_dependency"}

\* C20: add, update, delete, start, fail, cancel, add_dependency and
\* remove_dependency never move a task other than the one they are called on
\* from BLOCKED to PENDING.
C20_OnlyCompleteUnblocksOthers ==
    [][op'.name \in OtherMutatingOps =>
          \A t \in Stored \cap DOMAIN tasks' :
              (t # op'.id /\ tasks[t].status = BLOCKED) => tasks'[t].status # PENDING]_vars

\* remove_dependency has run its recompute pass and unblocked its own target
\* while another task is BLOCKED
C20_Witness ==
    /\ op.name = "remove_dependency" /\ op.ret = TRUE
    /\ op.id \in op.unblocked
    /\ \E t \in Stored : t # op.id /\ tasks[t].status = BLOCKED

\* ---- C21
\* the statuses the recompute pass leaves alone
Untouched == {IN_PROGRESS, COMPLETED, FAILED, CANCELLED}

\* C21: right after add_dependency or remove_dependency returns True, and
\* right after import_queue, every task that is not IN_PROGRESS, COMPLETED,
\* FAILED or CANCELLED is BLOCKED if it lists a dependency that is absent or
\* not COMPLETED, and PENDING otherwise.
C21_StatusesDerivedAfterPass ==
    (\/ op.name \in {"add_dependency", "remove_dependency"} /\ op.ret = TRUE
     \/ op.name = "import_queue")
        => \A t \in Stored :
              tasks[t].status \notin Untouched =>
                  tasks[t].status = IF DepsSatisfied(tasks, t) THEN PENDING ELSE BLOCKED

\* import_queue has unblocked a task that lists a dependency, while the
\* imported task is stored after it
C21_Witness ==
    /\ op.name = "import_queue"
    /\ \E t \in op.unblocked :
          /\ DepsOf(tasks, t) # {}
          /\ Len(order) > 1 /\ order[1] = t

\* ---- C22
\* C22: no stored task's dependency list holds the same id twice.
C22_NoDuplicateDependency ==
    \A t \in Stored :
        \A i, j \in 1..Len(tasks[t].dependencies) :
            tasks[t].dependencies[i] = tasks[t].dependencies[j] => i = j

\* ---- C23
\* the stored tasks that satisfy the filters get_queue was given
Matching(listing, agent) ==
    {t \in Stored :
        /\ listing.status # NoneStr => tasks[t].status = listing.status
        /\ agent # NoAgent => tasks[t].assigned_agent \in {agent, ANY}
        /\ listing.category # NoneStr => tasks[t].category = listing.category
        /\ listing.priority # None => tasks[t].priority = listing.priority}

Least(a, b) == IF a < b THEN a ELSE b

\* C23: get_queue with limit >= 0 returns min(limit, n) distinct tasks out of
\* the n stored tasks that satisfy every filter passed, in ascending order of
\* score, and no task left out scores less than a task returned; the statuses
\* are those after the recompute pass.
C23_QueueListing ==
    (op.name = "get_queue" /\ op.val.limit >= 0) =>
        LET r == op.val.result
            M == Matching(op.val, op.agent)
        IN  /\ Len(r) = Least(op.val.limit, Cardinality(M))
            /\ Range(r) \subseteq M
            /\ \A i, j \in 1..Len(r) : r[i] = r[j] => i = j
            /\ \A i, j \in 1..Len(r) :
                  i < j => CalculateScore(tasks[r[i]], now) <= CalculateScore(tasks[r[j]], now)
            /\ \A t \in M \ Range(r) : \A i \in 1..Len(r) :
                  CalculateScore(tasks[r[i]], now) <= CalculateScore(tasks[t], now)
            /\ UpdateBlockedStatus(tasks, order) = tasks

\* get_queue with an agent and limit 1 has returned the later of two matching
\* tasks, one assigned to the agent and one to the wildcard
C23_Witness ==
    /\ op.name = "get_queue" /\ op.agent # NoAgent /\ op.val.limit = 1
    /\ Len(op.val.result) = 1
    /\ \E t \in Matching(op.val, op.agent) :
          /\ t < op.val.result[1]
          /\ tasks[t].assigned_agent # tasks[op.val.result[1]].assigned_agent

\* ---- C24
\* the brackets of the score function, named after their upper ends
DeadlineBracket(deadline, time) ==
    IF deadline = None THEN "none"
    ELSE IF deadline = Unparsable THEN "unparsable"
    ELSE IF deadline - time < 0 THEN "overdue"
    ELSE IF deadline - time < 1 THEN "1h"
    ELSE IF deadline - time < 4 THEN "4h"
    ELSE IF deadline - time < 24 THEN "24h"
    ELSE IF deadline - time < 72 THEN "72h"
    ELSE "later"

AgeBracket(created_at, time) ==
    IF time - created_at > 72 THEN "old"
    ELSE IF time - created_at > 24 THEN "aged"
    ELSE "fresh"

\* the tasks a scored task t is compared with: any priority, deadlines on
\* both sides of every bracket end, creation times on both sides of every age
SomeDeadlines == {None, Unparsable}
                    \cup {d \in {now + k : k \in {-1, 0, 1, 3, 4, 23, 24, 71, 72, 168}} : d >= 0}
SomeCreationTimes == {c \in {now - k : k \in {0, 24, 25, 72, 73}} : c >= 0}
Comparable(t) ==
    {[t EXCEPT !.priority = p, !.deadline = d, !.created_at = c] :
        p \in TaskPriority, d \in SomeDeadlines, c \in SomeCreationTimes}

SameBrackets(t, u) ==
    /\ DeadlineBracket(t.deadline, now) = DeadlineBracket(u.deadline, now)
    /\ AgeBracket(t.created_at, now) = AgeBracket(u.created_at, now)
    /\ t.status = u.status

\* C24: of two tasks in the same deadline bracket, the same age bracket and
\* with the same status, the one with the lower priority value has the
\* strictly lower score.
C24_PriorityOrdersScore ==
    op.name = "calculate_score" =>
        \A u \in Comparable(tasks[op.id]) :
            SameBrackets(tasks[op.id], u) =>
                /\ u.priority < tasks[op.id].priority => CalculateScore(u, now) < op.val
                /\ u.priority > tasks[op.id].priority => CalculateScore(u, now) > op.val

\* a BLOCKED task of priority MEDIUM that is overdue and older than a day has
\* been scored
C24_Witness ==
    /\ op.name = "calculate_score"
    /\ tasks[op.id].priority = 3
    /\ tasks[op.id].status = BLOCKED
    /\ DeadlineBracket(tasks[op.id].deadline, now) = "overdue"
    /\ AgeBracket(tasks[op.id].created_at, now) = "aged"

\* ---- C25
\* C25: a task of any priority whose deadline is in the past scores strictly
\* less than a task of priority CRITICAL whose deadline is 72 hours or more
\* away, in the same age bracket and with the same status.
C25_OverdueDominates ==
    (op.name = "calculate_score"
        /\ DeadlineBracket(tasks[op.id].deadline, now) = "overdue") =>
        \A u \in Comparable(tasks[op.id]) :
            (/\ u.priority = 1
             /\ DeadlineBracket(u.deadline, now) = "later"
             /\ AgeBracket(u.created_at, now) = AgeBracket(tasks[op.id].created_at, now))
            => op.val < CalculateScore(u, now)

\* an overdue task of priority BACKLOG has been scored
C25_Witness ==
    /\ op.name = "calculate_score"
    /\ tasks[op.id].priority = 5
    /\ DeadlineBracket(tasks[op.id].deadline, now) = "overdue"

\* ---- C26
DeadlineReaders == {"calculate_score", "get_next", "get_queue", "get_stats",
                    "export_queue"}

\* C26: while a stored task carries an unparsable deadline, calculate_score,
\* get_next, get_queue, get_stats and export_queue return normally, and the
\* score is the one the task would have without a deadline.
C26_UnparsableDeadlineTolerated ==
    (op.name \in DeadlineReaders /\ \E t \in Stored : tasks[t].deadline = Unparsable)
        => /\ op.ret = TRUE
           /\ op.name = "calculate_score" =>
                 op.val = CalculateScore([tasks[op.id] EXCEPT !.deadline = None], now)

ReadOps == {"get_next", "get_queue"}

\* C29: a get_next or get_queue call leaves the stored ids, the agents and the
\* history as they were, changes no field of a task but its status, and
\* changes a status only from BLOCKED to PENDING or from PENDING to BLOCKED.
C29_ReadsOnlyToggle ==
    [][op'.name \in ReadOps =>
          /\ order' = order /\ agents' = agents /\ history' = history
          /\ DOMAIN tasks' = DOMAIN tasks
          /\ \A t \in Stored :
                /\ [tasks'[t] EXCEPT !.status = tasks[t].status] = tasks[t]
                /\ tasks'[t].status # tasks[t].status
                      => {tasks[t].status, tasks'[t].status} = {BLOCKED, PENDING}]_vars

\* a read by ATLAS has run over a store where ATLAS is bound to a started
\* task and a task depending on it is BLOCKED (start runs no recompute pass:
\* the read's pass is the first after it)
C29_Witness ==
    /\ op.name \in ReadOps /\ op.agent = "ATLAS"
    /\ \E t \in Stored, u \in Stored :
          /\ tasks[t].status = IN_PROGRESS /\ agents["ATLAS"].current_task = t
          /\ tasks[u].status = BLOCKED /\ tasks[u].dependencies = <<t>>

\* the positions inside the block of "with self._lock:"
Section == {"locked", "agent", "pass"}

\* what the call a thread is inside leaves when it runs alone on the store the
\* thread found when it took the lock
AtOnce(frame, ord) ==
    IF frame.name = "start" THEN StartAtOnce(frame.before, frame.task_id, frame.agent)
    ELSE CompleteAtOnce(frame.before, ord, frame.task_id)

\* C27: however the steps of concurrent mutating calls interleave, at most one
\* thread is inside a critical section, and when a call returns the tasks,
\* agents and history are those the call produces run alone on the store it
\* found when it took the lock: the calls take effect one at a time, in the
\* order in which they took the lock.
C27_MutationsSerialized ==
    [][/\ Cardinality({th \in Threads : threads'[th].pc \in Section}) <= 1
       /\ \A th \in Threads :
            (threads[th].pc \in Section /\ threads'[th].pc = "done")
                => <<tasks', agents', history'>> = AtOnce(threads[th], order)]_vars

\* one thread's start on a stored task has returned and another thread is
\* inside complete on the same task, past its status assignment
C27_Witness ==
    \E a \in Threads, b \in Threads :
        /\ threads[a].name = "start" /\ threads[a].pc = "done"
        /\ threads[b].name = "complete" /\ threads[b].pc = "pass"
        /\ threads[a].task_id = threads[b].task_id
        /\ threads[a].task_id \in Stored
        /\ tasks[threads[a].task_id].assigned_agent = "ATLAS"
        /\ lock = b

\* C28: while a read runs beside mutating calls, a task that start() moved to
\* IN_PROGRESS leaves that status only in a step of complete, fail, cancel or
\* start on it: the read's recompute pass never assigns it BLOCKED or PENDING.
C28_StartedKeepsInProgress ==
    [][\A t \in Stored \cap DOMAIN tasks' :
          (tasks[t].status = IN_PROGRESS /\ tasks'[t].status # IN_PROGRESS)
              => /\ threads' = threads
                 /\ op'.name \in {"complete", "fail", "cancel", "start"}
                 /\ op'.id = t]_vars
\* the deadline factor of the statement, times 10
StatedDeadlineFactor(t, time) ==
    CASE t.deadline \in {None, Unparsable} -> 10
      [] t.deadline \notin {None, Unparsable} /\ t.deadline - time < 0 -> 1
      [] t.deadline \notin {None, Unparsable} /\ 0 <= t.deadline - time
            /\ t.deadline - time < 1 -> 3
      [] t.deadline \notin {None, Unparsable} /\ 1 <= t.deadline - time
            /\ t.deadline - time < 4 -> 5
      [] t.deadline \notin {None, Unparsable} /\ 4 <= t.deadline - time
            /\ t.deadline - time < 24 -> 7
      [] t.deadline \notin {None, Unparsable} /\ 24 <= t.deadline - time
            /\ t.deadline - time < 72 -> 9
      [] OTHER -> 10

\* the age factor of the statement, times 10000
StatedAgeFactor(t, time) ==
    CASE time - t.created_at <= 24 -> 10000
      [] 24 < time - t.created_at /\ time - t.created_at <= 72 -> 9500
      [] OTHER -> 95 * 90

\* C31: calculate_score returns priority x deadline factor x age factor x
\* blocked factor: the deadline factor is 0.1, 0.3, 0.5, 0.7 or 0.9 for fewer
\* than 0, 1, 4, 24 or 72 hours to the deadline (the first bracket that
\* matches) and 1 otherwise, also without a deadline or with an unparsable
\* one; the age factor is 1 up to 24 hours, 0.95 up to 72 hours and 0.95 x 0.90
\* beyond; the blocked factor is 10 exactly for a BLOCKED task.
C31_ScoreIsProductOfFactors ==
    op.name = "calculate_score" =>
        op.val = tasks[op.id].priority * StatedDeadlineFactor(tasks[op.id], now)
                    * StatedAgeFactor(tasks[op.id], now)
                    * (IF tasks[op.id].status = BLOCKED THEN 10 ELSE 1)

\* a BLOCKED task older than 72 hours was scored with 4 to 24 hours left
C31_Witness ==
    /\ op.name = "calculate_score"
    /\ tasks[op.id].status = BLOCKED
    /\ now - tasks[op.id].created_at > 72
    /\ tasks[op.id].deadline \notin {None, Unparsable}
    /\ tasks[op.id].deadline - now >= 4 /\ tasks[op.id].deadline - now < 24
\* C32: after every call, read or mutating, each BLOCKED task lists at least
\* one dependency that is not stored or not COMPLETED.
C32_BlockedHasUnmetDependency ==
    \A t \in Stored :
        tasks[t].status = BLOCKED => \E d \in DepsOf(tasks, t) : ~Completed(tasks, d)

\* a read has left a task BLOCKED whose dependency is stored and was started
\* again after the task was added
C32_Witness ==
    /\ op.name = "get_next"
    /\ \E t \in Stored :
          /\ tasks[t].status = BLOCKED
          /\ \E d \in DepsOf(tasks, t) \cap Stored : tasks[d].status = IN_PROGRESS
\* C33: whenever a roster agent's current_task is set, it names a stored
\* task that is IN_PROGRESS and assigned to that agent.
C33_CurrentTaskIsInProgress ==
    \A a \in Roster :
        agents[a].current_task # None =>
            /\ agents[a].current_task \in Stored
            /\ tasks[agents[a].current_task].status = IN_PROGRESS
            /\ tasks[agents[a].current_task].assigned_agent = a
\* the IN_PROGRESS tasks assigned to the agent
InProgressOf(a) ==
    {t \in Stored : tasks[t].status = IN_PROGRESS /\ tasks[t].assigned_agent = a}

\* C34: no roster agent is the assigned agent of more than one IN_PROGRESS
\* task.
C34_OneTaskPerAgent == \A a \in Roster : Cardinality(InProgressOf(a)) <= 1
\* C35: complete(id) and fail(id) change the record of an agent only if the
\* agent's current_task was id before the call.
C35_FinishTouchesOwnAgentOnly ==
    [][op'.name \in {"complete", "fail"} =>
          \A a \in Roster : agents'[a] # agents[a] => agents[a].current_task = op'.id]_vars
\* C36: a task that is PENDING with all its listed dependencies COMPLETED does
\* not become BLOCKED again, except by an add_dependency call on it.  A task
\* becomes PENDING only in add, import_queue or a recompute pass, each time
\* with every listed dependency stored and COMPLETED, so the statement covers
\* every step that takes a task from PENDING to BLOCKED.
C36_ReadyStaysUnblocked ==
    [][\A t \in Stored \cap DOMAIN tasks' :
          (tasks[t].status = PENDING /\ tasks'[t].status = BLOCKED)
              => (op'.name = "add_dependency" /\ op'.id = t /\ op'.ret = TRUE)]_vars
\* every listed dependency names a stored task and no task is FAILED or
\* CANCELLED
AllListedStored ==
    \A t \in Stored :
        /\ DepsOf(tasks, t) \subseteq Stored
        /\ tasks[t].status \notin {FAILED, CANCELLED}

\* C37: on a store in which every listed dependency names a stored task and no
\* task is FAILED or CANCELLED, the worker loop eventually has completed every
\* task and got None from get_next.
C37_WorkerDrainsQueue ==
    (threads[Worker].name = "worker" /\ AllListedStored)
        ~> (threads[Worker].pc = "done" /\ \A t \in Stored : tasks[t].status = COMPLETED)

\* the place of a stored task in the store's insertion order
PlaceIn(ord, t) == CHOOSE k \in 1..Len(ord) : ord[k] = t

\* the tasks get_next chooses among, after its recompute pass
CandidatesOf(agent) ==
    {t \in Stored : /\ tasks[t].status = PENDING
                    /\ (agent = NoAgent \/ tasks[t].assigned_agent \in {ANY, agent})}

\* C38: among the candidates whose score equals that of the task get_next
\* returned, the returned task is the one inserted into the store earliest, and
\* in the list get_queue returned, two tasks of equal score stand in the order
\* of their insertion into the store.
C38_TiesKeepInsertionOrder ==
    /\ (op.name = "get_next" /\ op.val # None) =>
           \A t \in CandidatesOf(op.agent) :
               /\ ScoreKey(tasks[op.val], now) <= ScoreKey(tasks[t], now)
               /\ ScoreKey(tasks[t], now) = ScoreKey(tasks[op.val], now)
                      => PlaceIn(order, op.val) <= PlaceIn(order, t)
    /\ op.name = "get_queue" =>
           \A i, j \in 1..Len(op.val.result) :
               (/\ i < j
                /\ ScoreKey(tasks[op.val.result[i]], now)
                      = ScoreKey(tasks[op.val.result[j]], now))
                   => PlaceIn(order, op.val.result[i]) < PlaceIn(order, op.val.result[j])

\* get_queue returned two tasks of equal score, the second of them the task a
\* get_next would pass over
C38_Witness ==
    /\ op.name = "get_queue"
    /\ Len(op.val.result) = 2
    /\ ScoreKey(tasks[op.val.result[1]], now) = ScoreKey(tasks[op.val.result[2]], now)
    /\ tasks[op.val.result[1]].status = PENDING
    /\ now > 0


\* C39: in the list get_queue returned without a status filter, no BLOCKED
\* task stands before a PENDING task, and no BLOCKED task of the list scores
\* at or below a PENDING task of the list.
C39_PendingBeforeBlocked ==
    (op.name = "get_queue" /\ op.val.status = NoneStr) =>
        \A i, j \in 1..Len(op.val.result) :
            (/\ tasks[op.val.result[i]].status = BLOCKED
             /\ tasks[op.val.result[j]].status = PENDING)
                => /\ j < i
                   /\ ScoreKey(tasks[op.val.result[j]], now)
                         < ScoreKey(tasks[op.val.result[i]], now)


\* C40: the task get_next returned to a named agent has a category among that
\* agent's capability tags.
C40_NextMatchesCapabilities ==
    (op.name = "get_next" /\ op.agent \in Roster /\ op.val # None) =>
        tasks[op.val].category \in get_agent_capabilities(op.agent)

====
